---- MODULE Spec2Model ----
(***************************************************************************)
(* Threshold-based flow funding: the discrete distribution engine          *)
(* (lib/flow-funding/engine.ts, targeted.ts), the continuous equilibrium   *)
(* engine (lib/flow-v2/engine-v2.ts) and the tbff initial distribution     *)
(* (lib/tbff/algorithms.ts).                                               *)
(*                                                                         *)
(* JavaScript numbers are modelled as exact rationals <<n, d>> in lowest   *)
(* terms with d > 0, so that sums, ratios and comparisons are the real-    *)
(* number values the floating-point code approximates.  A JavaScript Map   *)
(* is a sequence of <<key, value>> entries in insertion order.             *)
(***************************************************************************)
EXTENDS Integers, Sequences, FiniteSets, TLC

(***************************************************************************)
(* Exact rational arithmetic                                               *)
(***************************************************************************)
Abs(x) == IF x < 0 THEN -x ELSE x

RECURSIVE GCD(_, _)
GCD(a, b) == IF b = 0 THEN a ELSE GCD(b, a % b)

Rat(n, d) ==
  LET s == IF d < 0 THEN -1 ELSE 1
      g == GCD(Abs(n), Abs(d))
  IN  << (s * n) \div g, (s * d) \div g >>

Num(n) == << n, 1 >>

Zero == Num(0)

Plus(x, y) == Rat(x[1] * y[2] + y[1] * x[2], x[2] * y[2])

Minus(x, y) == Rat(x[1] * y[2] - y[1] * x[2], x[2] * y[2])

Times(x, y) == Rat(x[1] * y[1], x[2] * y[2])

Over(x, y) == Rat(x[1] * y[2], x[2] * y[1])

Less(x, y) == x[1] * y[2] < y[1] * x[2]

LessEq(x, y) == x[1] * y[2] <= y[1] * x[2]

MathMax(x, y) == IF Less(x, y) THEN y ELSE x

MathAbs(x) == << Abs(x[1]), x[2] >>

RECURSIVE SumSeq(_)
SumSeq(s) == IF s = << >> THEN Zero ELSE Plus(Head(s), SumSeq(Tail(s)))

RECURSIVE Flatten(_)
Flatten(ss) == IF ss = << >> THEN << >> ELSE Head(ss) \o Flatten(Tail(ss))

(***************************************************************************)
(* JavaScript Map: entries <<key, value>> in insertion order               *)
(***************************************************************************)
MapHas(m, k) == \E j \in 1..Len(m) : m[j][1] = k

MapGetOr0(m, k) ==
  IF MapHas(m, k) THEN m[CHOOSE j \in 1..Len(m) : m[j][1] = k][2] ELSE Zero

MapSet(m, k, v) ==
  IF MapHas(m, k)
  THEN [j \in 1..Len(m) |-> IF m[j][1] = k THEN << k, v >> ELSE m[j]]
  ELSE Append(m, << k, v >>)

MapValues(m) == [j \in 1..Len(m) |-> m[j][2]]

MapKeys(m) == [j \in 1..Len(m) |-> m[j][1]]

RECURSIVE MapFromEntries(_)
MapFromEntries(es) ==
  IF es = << >> THEN << >>
  ELSE LET last == es[Len(es)]
       IN  MapSet(MapFromEntries(SubSeq(es, 1, Len(es) - 1)), last[1], last[2])

(***************************************************************************)
(* Program constants                                                       *)
(***************************************************************************)
FullScale == 100

DefaultEpsilon == Rat(1, 100)

AllocationSlackLoose == Num(150)

AllocationSlack == Rat(10001, 100)

(***************************************************************************)
(* Account helpers                                                         *)
(***************************************************************************)
IdsOf(accounts) == { accounts[k].id : k \in 1..Len(accounts) }

TotalAllocation(a) == SumSeq(MapValues(a.allocations))

balancesOf(accounts) ==
  MapFromEntries([k \in 1..Len(accounts) |-> << accounts[k].id, accounts[k].balance >>])

TotalBalance(accounts) == SumSeq([k \in 1..Len(accounts) |-> accounts[k].balance])

(***************************************************************************)
(* validateNetwork of the discrete engine                                  *)
(***************************************************************************)
allocationErrors(accounts, a) ==
  Flatten([j \in 1..Len(a.allocations) |->
    LET targetId == a.allocations[j][1]
        percentage == a.allocations[j][2]
    IN  (IF Less(percentage, Zero) \/ Less(Num(FullScale), percentage)
         THEN << << "allocationRange", a.id, targetId >> >> ELSE << >>)
        \o (IF targetId \notin IdsOf(accounts)
            THEN << << "targetMissing", a.id, targetId >> >> ELSE << >>)
        \o (IF targetId = a.id
            THEN << << "selfAllocation", a.id >> >> ELSE << >>)])

accountErrors(accounts, a) ==
  (IF Less(a.minThreshold, Zero) THEN << << "minNegative", a.id >> >> ELSE << >>)
  \o (IF Less(a.maxThreshold, Zero) THEN << << "maxNegative", a.id >> >> ELSE << >>)
  \o (IF Less(a.maxThreshold, a.minThreshold)
      THEN << << "minExceedsMax", a.id >> >> ELSE << >>)
  \o (IF Less(a.balance, Zero) THEN << << "balanceNegative", a.id >> >> ELSE << >>)
  \o allocationErrors(accounts, a)
  \o (IF Less(AllocationSlack, TotalAllocation(a))
      THEN << << "totalExceeds", a.id >> >> ELSE << >>)

accountWarnings(accounts, a) ==
  LET hasIncoming == \E k \in 1..Len(accounts) : MapHas(accounts[k].allocations, a.id)
  IN  (IF Len(a.allocations) = 0 /\ Len(accounts) > 1
       THEN << << "noOutgoing", a.id >> >> ELSE << >>)
      \o (IF ~hasIncoming /\ a.balance = Zero
          THEN << << "neverFunded", a.id >> >> ELSE << >>)

validateNetwork(accounts) ==
  IF Len(accounts) = 0
  THEN [valid |-> FALSE, errors |-> << << "emptyNetwork" >> >>, warnings |-> << >>]
  ELSE LET errors == Flatten([k \in 1..Len(accounts) |-> accountErrors(accounts, accounts[k])])
           warnings == Flatten([k \in 1..Len(accounts) |-> accountWarnings(accounts, accounts[k])])
       IN  [valid |-> Len(errors) = 0, errors |-> errors, warnings |-> warnings]

(***************************************************************************)
(* Phase 1: distributeInitial                                              *)
(***************************************************************************)
shortfallOf(a) == MathMax(Zero, Minus(a.minThreshold, a.balance))

capacityOf(a) == MathMax(Zero, Minus(a.maxThreshold, a.balance))

overflowOf(a) == MathMax(Zero, Minus(a.balance, a.maxThreshold))

positiveEntries(entries) ==
  MapFromEntries(SelectSeq(entries, LAMBDA e : Less(Zero, e[2])))

minShortfalls(accounts) ==
  positiveEntries([k \in 1..Len(accounts) |-> << accounts[k].id, shortfallOf(accounts[k]) >>])

capacities(accounts) ==
  positiveEntries([k \in 1..Len(accounts) |-> << accounts[k].id, capacityOf(accounts[k]) >>])

overflowsOf(accounts) ==
  positiveEntries([k \in 1..Len(accounts) |-> << accounts[k].id, overflowOf(accounts[k]) >>])

scarcityAllocationGreedy(shortfall, totalMinRequired, funding) ==
  IF Less(funding, shortfall) THEN funding ELSE shortfall

scarcityAllocation(shortfall, totalMinRequired, funding) ==
  Times(Over(shortfall, totalMinRequired), funding)

capacityAllocationGreedy(capacity, totalCapacity, remaining) ==
  IF Less(remaining, capacity) THEN remaining ELSE capacity

capacityAllocation(capacity, totalCapacity, remaining) ==
  Times(Over(capacity, totalCapacity), remaining)

fillMinimumsSkipped(accounts, shortfalls) == accounts

fillMinimums(accounts, shortfalls) ==
  [k \in 1..Len(accounts) |->
     IF Less(Zero, MapGetOr0(shortfalls, accounts[k].id))
     THEN [accounts[k] EXCEPT !.balance = accounts[k].minThreshold]
     ELSE accounts[k]]

noCapacityFallback(accounts, remaining) == accounts

distributeInitial(accounts, funding) ==
  LET shortfalls == minShortfalls(accounts)
      totalMinRequired == SumSeq(MapValues(shortfalls))
      filled == fillMinimums(accounts, shortfalls)
      remaining == Minus(funding, totalMinRequired)
      caps == capacities(filled)
      totalCapacity == SumSeq(MapValues(caps))
  IN  IF Less(funding, totalMinRequired)
      THEN [k \in 1..Len(accounts) |->
              LET shortfall == MapGetOr0(shortfalls, accounts[k].id)
              IN  IF Less(Zero, shortfall)
                  THEN [accounts[k] EXCEPT !.balance =
                          Plus(@, scarcityAllocation(shortfall, totalMinRequired, funding))]
                  ELSE accounts[k]]
      ELSE IF LessEq(remaining, Zero) THEN filled
      ELSE IF totalCapacity = Zero THEN noCapacityFallback(filled, remaining)
      ELSE [k \in 1..Len(filled) |->
              LET capacity == MapGetOr0(caps, filled[k].id)
              IN  IF Less(Zero, capacity)
                  THEN [filled[k] EXCEPT !.balance =
                          Plus(@, capacityAllocation(capacity, totalCapacity, remaining))]
                  ELSE filled[k]]

(***************************************************************************)
(* Phase 2: calculateOverflow                                              *)
(***************************************************************************)
clampToMaxKeepsBalance(a) == a

clampToMax(a) ==
  IF Less(Zero, overflowOf(a)) THEN [a EXCEPT !.balance = a.maxThreshold] ELSE a

calculateOverflowFindsNone(accounts) == [overflows |-> << >>, accounts |-> accounts]

calculateOverflow(accounts) ==
  [overflows |-> overflowsOf(accounts),
   accounts  |-> [k \in 1..Len(accounts) |-> clampToMax(accounts[k])]]

(***************************************************************************)
(* Phase 3: redistributeOverflow                                           *)
(***************************************************************************)
flowKey(sourceId, targetId) == sourceId \o "->" \o targetId

normalizedAmountOfFullScale(overflow, percentage, totalAllocation) ==
  Times(overflow, Over(percentage, Num(FullScale)))

normalizedAmountUnscaled(overflow, percentage, totalAllocation) == overflow

normalizedAmount(overflow, percentage, totalAllocation) ==
  Times(overflow, Over(percentage, totalAllocation))

accountById(accounts, id) ==
  accounts[CHOOSE k \in 1..Len(accounts) :
             /\ accounts[k].id = id
             /\ \A l \in (k + 1)..Len(accounts) : accounts[l].id # id]

transfersFrom(accounts, sourceId, overflow) ==
  IF sourceId \notin IdsOf(accounts) THEN << >>
  ELSE LET source == accountById(accounts, sourceId)
           totalAllocation == TotalAllocation(source)
       IN  IF totalAllocation = Zero THEN << >>
           ELSE SelectSeq(
                  [j \in 1..Len(source.allocations) |->
                     [source |-> sourceId,
                      target |-> source.allocations[j][1],
                      amount |-> normalizedAmount(overflow, source.allocations[j][2],
                                                  totalAllocation)]],
                  LAMBDA t : t.target \in IdsOf(accounts))

transfersOf(accounts, overflows) ==
  Flatten([j \in 1..Len(overflows) |->
             transfersFrom(accounts, overflows[j][1], overflows[j][2])])

creditDropsAmount(accounts, targetId, amount) == accounts

credit(accounts, targetId, amount) ==
  LET last == CHOOSE k \in 1..Len(accounts) :
                /\ accounts[k].id = targetId
                /\ \A l \in (k + 1)..Len(accounts) : accounts[l].id # targetId
  IN  [accounts EXCEPT ![last].balance = Plus(@, amount)]

RECURSIVE applyTransfers(_, _, _)
applyTransfers(accounts, flows, transfers) ==
  IF transfers = << >> THEN [accounts |-> accounts, flows |-> flows]
  ELSE LET t == Head(transfers)
       IN  applyTransfers(credit(accounts, t.target, t.amount),
                          MapSet(flows, flowKey(t.source, t.target), t.amount),
                          Tail(transfers))

redistributeOverflow(accounts, overflows) ==
  applyTransfers(accounts, << >>, transfersOf(accounts, overflows))

(***************************************************************************)
(* The overflow round of runTargetedDistribution (its own copy of Phases   *)
(* 2 and 3)                                                                *)
(***************************************************************************)
targetedOverflow(accounts) ==
  [overflows |-> positiveEntries([k \in 1..Len(accounts) |->
                   << accounts[k].id, overflowOf(accounts[k]) >>]),
   accounts  |-> [k \in 1..Len(accounts) |->
                    IF Less(Zero, overflowOf(accounts[k]))
                    THEN [accounts[k] EXCEPT !.balance = accounts[k].maxThreshold]
                    ELSE accounts[k]]]

targetedAmountOfFullScale(overflow, percentage, totalAllocation) ==
  Times(overflow, Over(percentage, Num(FullScale)))

targetedAmount(overflow, percentage, totalAllocation) ==
  Times(overflow, Over(percentage, totalAllocation))

targetedTransfersFrom(accounts, sourceId, overflow) ==
  IF sourceId \notin IdsOf(accounts) THEN << >>
  ELSE LET source == accountById(accounts, sourceId)
           totalAllocation == TotalAllocation(source)
       IN  IF totalAllocation = Zero THEN << >>
           ELSE SelectSeq(
                  [j \in 1..Len(source.allocations) |->
                     [source |-> sourceId,
                      target |-> source.allocations[j][1],
                      amount |-> targetedAmount(overflow, source.allocations[j][2],
                                                totalAllocation)]],
                  LAMBDA t : t.target \in IdsOf(accounts))

targetedRedistribute(accounts, overflows) ==
  applyTransfers(accounts, << >>,
                 Flatten([j \in 1..Len(overflows) |->
                            targetedTransfersFrom(accounts, overflows[j][1], overflows[j][2])]))

(***************************************************************************)
(* Bounds and inputs                                                       *)
(***************************************************************************)
MaxAccounts == 3

MaxIterationsBound == 3

Fundings == { 0, 150, 200, 500 }

PlainIds == << "a", "b", "c", "d", "e", "f" >>

ArrowIds == << "a", "a->a", "b", "c", "d", "e" >>

Profile(b, mn, mx) ==
  [balance |-> Num(b), minThreshold |-> Num(mn), maxThreshold |-> Num(mx)]

Profiles ==
  { Profile(0, 100, 200), Profile(0, 200, 200), Profile(0, 100, 300), Profile(150, 0, 100) }

Topologies == { "none", "ring", "half", "split", "chain", "zero" }

allocationsFor(topology, k, n, ids) ==
  LET next == ids[(k % n) + 1]
      next2 == ids[((k + 1) % n) + 1]
  IN  CASE topology = "none"  -> << >>
        [] topology = "ring"  -> << << next, Num(100) >> >>
        [] topology = "half"  -> << << next, Num(50) >> >>
        [] topology = "split" -> MapFromEntries(<< << next, Num(50) >>, << next2, Num(50) >> >>)
        [] topology = "chain" -> IF k < n THEN << << ids[k + 1], Num(100) >> >> ELSE << >>
        [] topology = "zero"  -> << << next, Zero >> >>

BuildNetwork(n, profs, topology, ids) ==
  [k \in 1..n |->
     [id           |-> ids[k],
      balance      |-> profs[k].balance,
      minThreshold |-> profs[k].minThreshold,
      maxThreshold |-> profs[k].maxThreshold,
      allocations  |-> allocationsFor(topology, k, n, ids)]]

NetworkFamily ==
  UNION { { BuildNetwork(n, profs, topology, ids) :
              profs \in [1..n -> Profiles],
              topology \in Topologies,
              ids \in (IF n = 2 THEN { PlainIds, ArrowIds } ELSE { PlainIds }) } :
          n \in 1..MaxAccounts }

Defects ==
  { "minNegative", "maxNegative", "minExceedsMax", "balanceNegative",
    "targetMissing", "selfAllocation", "totalExceeds" }

WithDefect(a, defect, missingId) ==
  CASE defect = "minNegative"     -> [a EXCEPT !.minThreshold = Num(-100)]
    [] defect = "maxNegative"     -> [a EXCEPT !.minThreshold = Num(-200), !.maxThreshold = Num(-100)]
    [] defect = "minExceedsMax"   -> [a EXCEPT !.minThreshold = Num(200)]
    [] defect = "balanceNegative" -> [a EXCEPT !.balance = Num(-50)]
    [] defect = "targetMissing"   -> [a EXCEPT !.allocations = Append(@, << missingId, Num(50) >>)]
    [] defect = "selfAllocation"  -> [a EXCEPT !.allocations = Append(@, << a.id, Num(50) >>)]
    [] defect = "totalExceeds"    -> [a EXCEPT !.allocations = << << @[1][1], Num(60) >>, << missingId, Num(60) >> >>]

DefectFamily ==
  { << >> } \cup
  UNION { { LET base == BuildNetwork(n, [k \in 1..n |-> Profile(150, 0, 100)], "ring", PlainIds)
            IN  [base EXCEPT ![d] = WithDefect(base[d], defect, PlainIds[n + 1])] :
              d \in 1..n, defect \in Defects } :
          n \in 2..MaxAccounts }

SecondWeights == { Rat(1, 100), Rat(1, 50), Num(60) }

withSecondTarget(ns, w) ==
  [ns EXCEPT ![1].allocations =
     << << ns[2].id, IF w = Num(60) THEN Num(60) ELSE Num(100) >>, << ns[3].id, w >> >>]

SlackFamily ==
  { withSecondTarget(BuildNetwork(3, [k \in 1..3 |-> Profile(150, 0, 100)], "ring", PlainIds), w) :
      w \in SecondWeights }

Networks == NetworkFamily \cup DefectFamily

ValidatedNetworks == Networks \cup SlackFamily

Configs == { [maxIterations |-> m, epsilon |-> DefaultEpsilon] : m \in 1..MaxIterationsBound }

(***************************************************************************)
(* State                                                                   *)
(***************************************************************************)
VARIABLES
  entry,            \* the entry point that was called
  pc,               \* "call", "loop", "returned" or "thrown"
  given,            \* the caller's records as they were when the call was made
  accounts,         \* the caller's account array, mutated in place (discrete engine)
  nodes,            \* the caller's node array, mutated in place (continuous engine)
  network,          \* the network handed to initialDistribution (tbff)
  funding,          \* the funding argument
  cfg,              \* the merged configuration
  i,                \* the loop counter
  iterations,       \* discrete: the iteration records pushed; continuous: the round count
  converged,        \* the local converged flag
  initialBalances,  \* the snapshot taken at entry
  result,           \* << >> until the call returns, then << the returned value >>
  thrown,           \* << >> unless the call threw, then << the error >>
  previous          \* << >> for a first call; else << what the caller kept of the call before >>

vars ==
  << entry, pc, given, accounts, nodes, network, funding, cfg, i, iterations, converged,
     initialBalances, result, thrown, previous >>

InitDiscrete ==
  /\ entry \in { "runDistribution", "runTargetedDistribution" }
  /\ accounts \in Networks
  /\ given = accounts
  /\ nodes = << >>
  /\ network = << >>
  /\ funding \in (IF entry = "runDistribution" THEN { Num(f) : f \in Fundings } ELSE { Zero })
  /\ cfg \in Configs
  /\ pc = "call"
  /\ i = 0
  /\ iterations = << >>
  /\ converged = FALSE
  /\ initialBalances = << >>
  /\ result = << >>
  /\ thrown = << >>
  /\ previous = << >>

(***************************************************************************)
(* The mutual aid circle preset, run with its suggested funding            *)
(***************************************************************************)
mutualAidCircle ==
  [id               |-> "mutual-aid-circle",
   suggestedFunding |-> Num(1500),
   accounts         |->
     << [id |-> "A", balance |-> Zero, minThreshold |-> Num(200), maxThreshold |-> Num(400),
         allocations |-> << << "B", Num(100) >> >>],
        [id |-> "B", balance |-> Zero, minThreshold |-> Num(200), maxThreshold |-> Num(400),
         allocations |-> << << "C", Num(100) >> >>],
        [id |-> "C", balance |-> Zero, minThreshold |-> Num(200), maxThreshold |-> Num(400),
         allocations |-> << << "A", Num(100) >> >>] >>]

InitPreset ==
  /\ entry = "runDistribution"
  /\ accounts = mutualAidCircle.accounts
  /\ given = accounts
  /\ nodes = << >>
  /\ network = << >>
  /\ funding = mutualAidCircle.suggestedFunding
  /\ cfg \in Configs
  /\ pc = "call"
  /\ i = 0
  /\ iterations = << >>
  /\ converged = FALSE
  /\ initialBalances = << >>
  /\ result = << >>
  /\ thrown = << >>
  /\ previous = << >>

(***************************************************************************)
(* runDistribution                                                         *)
(***************************************************************************)
invalidNetworkError(validation) ==
  [message |-> "Invalid network", errors |-> validation.errors]

loopContinuesInclusive(index, maxIterations) == index <= maxIterations

loopContinues(index, maxIterations) == index < maxIterations

totalOverflowOf(overflows) == SumSeq(MapValues(overflows))

isConverged(totalOverflow, epsilon) == Less(totalOverflow, epsilon)

iterationRecord(index, balances, overflows, totalOverflow, flows, epsilon) ==
  [iteration     |-> index,
   balances      |-> balances,
   overflows     |-> overflows,
   totalOverflow |-> totalOverflow,
   flows         |-> flows,
   converged     |-> isConverged(totalOverflow, epsilon)]

distributionResultFromLastRecord(initial, accts, its, conv, totalFunding) ==
  [initialBalances |-> initial,
   finalBalances   |-> IF its = << >> THEN balancesOf(accts) ELSE its[Len(its)].balances,
   iterations      |-> its,
   converged       |-> conv,
   totalFunding    |-> totalFunding,
   iterationCount  |-> Len(its)]

distributionResult(initial, accts, its, conv, totalFunding) ==
  [initialBalances |-> initial,
   finalBalances   |-> balancesOf(accts),
   iterations      |-> its,
   converged       |-> conv,
   totalFunding    |-> totalFunding,
   iterationCount  |-> Len(its)]

RunDistributionThrow ==
  /\ entry = "runDistribution" /\ pc = "call"
  /\ ~validateNetwork(accounts).valid
  /\ thrown' = << invalidNetworkError(validateNetwork(accounts)) >>
  /\ pc' = "thrown"
  /\ UNCHANGED << previous, entry, given, accounts, nodes, network, funding, cfg, i, iterations, converged,
                  initialBalances, result >>

RunDistributionPhaseA ==
  /\ entry = "runDistribution" /\ pc = "call"
  /\ validateNetwork(accounts).valid
  /\ initialBalances' = balancesOf(accounts)
  /\ accounts' = distributeInitial(accounts, funding)
  /\ iterations' = << >>
  /\ converged' = FALSE
  /\ i' = 0
  /\ pc' = "loop"
  /\ UNCHANGED << previous, entry, given, nodes, network, funding, cfg, result, thrown >>

RunDistributionRoundWithoutBreak ==
  /\ entry = "runDistribution" /\ pc = "loop"
  /\ loopContinues(i, cfg.maxIterations)
  /\ LET co == calculateOverflow(accounts)
         totalOverflow == totalOverflowOf(co.overflows)
         snapshot == balancesOf(co.accounts)
         rd == redistributeOverflow(co.accounts, co.overflows)
     IN  IF isConverged(totalOverflow, cfg.epsilon)
         THEN /\ converged' = TRUE
              /\ accounts' = co.accounts
              /\ iterations' = Append(iterations,
                   iterationRecord(i, snapshot, co.overflows, totalOverflow, << >>, cfg.epsilon))
              /\ i' = i + 1
         ELSE /\ converged' = converged
              /\ accounts' = rd.accounts
              /\ iterations' = Append(iterations,
                   iterationRecord(i, snapshot, co.overflows, totalOverflow, rd.flows, cfg.epsilon))
              /\ i' = i + 1
  /\ UNCHANGED << previous, entry, pc, given, nodes, network, funding, cfg, initialBalances, result, thrown >>

RunDistributionRound ==
  /\ entry = "runDistribution" /\ pc = "loop"
  /\ ~converged /\ loopContinues(i, cfg.maxIterations)
  /\ LET co == calculateOverflow(accounts)
         totalOverflow == totalOverflowOf(co.overflows)
         snapshot == balancesOf(co.accounts)
         rd == redistributeOverflow(co.accounts, co.overflows)
     IN  IF isConverged(totalOverflow, cfg.epsilon)
         THEN /\ converged' = TRUE
              /\ accounts' = co.accounts
              /\ iterations' = Append(iterations,
                   iterationRecord(i, snapshot, co.overflows, totalOverflow, << >>, cfg.epsilon))
              /\ i' = i
         ELSE /\ converged' = FALSE
              /\ accounts' = rd.accounts
              /\ iterations' = Append(iterations,
                   iterationRecord(i, snapshot, co.overflows, totalOverflow, rd.flows, cfg.epsilon))
              /\ i' = i + 1
  /\ UNCHANGED << previous, entry, pc, given, nodes, network, funding, cfg, initialBalances, result, thrown >>

RunDistributionReturn ==
  /\ entry = "runDistribution" /\ pc = "loop"
  /\ converged \/ ~loopContinues(i, cfg.maxIterations)
  /\ result' = << distributionResult(initialBalances, accounts, iterations, converged, funding) >>
  /\ pc' = "returned"
  /\ UNCHANGED << previous, entry, given, accounts, nodes, network, funding, cfg, i, iterations, converged,
                  initialBalances, thrown >>

(***************************************************************************)
(* runTargetedDistribution                                                 *)
(***************************************************************************)
targetedLoopContinues(index, maxIterations) == index < maxIterations

RunTargetedEnter ==
  /\ entry = "runTargetedDistribution" /\ pc = "call"
  /\ initialBalances' = balancesOf(accounts)
  /\ iterations' = << >>
  /\ converged' = FALSE
  /\ i' = 0
  /\ pc' = "loop"
  /\ UNCHANGED << previous, entry, given, accounts, nodes, network, funding, cfg, result, thrown >>

RunTargetedRound ==
  /\ entry = "runTargetedDistribution" /\ pc = "loop"
  /\ ~converged /\ targetedLoopContinues(i, cfg.maxIterations)
  /\ LET co == targetedOverflow(accounts)
         totalOverflow == SumSeq(MapValues(co.overflows))
         snapshot == balancesOf(co.accounts)
         rd == targetedRedistribute(co.accounts, co.overflows)
     IN  IF Less(totalOverflow, cfg.epsilon)
         THEN /\ converged' = TRUE
              /\ accounts' = co.accounts
              /\ iterations' = Append(iterations,
                   [iteration |-> i, balances |-> snapshot, overflows |-> co.overflows,
                    totalOverflow |-> totalOverflow, flows |-> << >>,
                    converged |-> Less(totalOverflow, cfg.epsilon)])
              /\ i' = i
         ELSE /\ converged' = FALSE
              /\ accounts' = rd.accounts
              /\ iterations' = Append(iterations,
                   [iteration |-> i, balances |-> snapshot, overflows |-> co.overflows,
                    totalOverflow |-> totalOverflow, flows |-> rd.flows,
                    converged |-> Less(totalOverflow, cfg.epsilon)])
              /\ i' = i + 1
  /\ UNCHANGED << previous, entry, pc, given, nodes, network, funding, cfg, initialBalances, result, thrown >>

RunTargetedReturn ==
  /\ entry = "runTargetedDistribution" /\ pc = "loop"
  /\ converged \/ ~targetedLoopContinues(i, cfg.maxIterations)
  /\ result' = << [initialBalances |-> initialBalances,
                   finalBalances   |-> balancesOf(accounts),
                   iterations      |-> iterations,
                   converged       |-> converged,
                   totalFunding    |-> Zero,
                   iterationCount  |-> Len(iterations)] >>
  /\ pc' = "returned"
  /\ UNCHANGED << previous, entry, given, accounts, nodes, network, funding, cfg, i, iterations, converged,
                  initialBalances, thrown >>

(***************************************************************************)
(* Continuous engine: zone function and validateNetwork (engine-v2.ts)     *)
(***************************************************************************)
Undefined == << >>

OrZero(x) == IF x = Undefined THEN Zero ELSE x

V2Epsilon == Rat(1, 1000)

CoarseEpsilon == Num(25)

capacityThresholdAtMax(node) == node.maxThreshold

capacityThresholdOf(node) == Times(Rat(3, 2), node.maxThreshold)

buildingOutflowUpToMax(totalInflow, minThreshold, maxThreshold, buildingRange) ==
  Times(Over(Minus(totalInflow, minThreshold), buildingRange), maxThreshold)

buildingOutflow(totalInflow, minThreshold, maxThreshold, buildingRange) ==
  Times(Over(Minus(totalInflow, minThreshold), buildingRange),
        Times(Rat(1, 2), maxThreshold))

calculateOutflow(node) ==
  LET totalInflow == OrZero(node.totalInflow)
      capacityThreshold == capacityThresholdOf(node)
      buildingRange == Minus(capacityThreshold, node.minThreshold)
  IN  IF Less(totalInflow, node.minThreshold) THEN Zero
      ELSE IF LessEq(capacityThreshold, totalInflow)
           THEN Minus(totalInflow, node.maxThreshold)
      ELSE IF buildingRange = Zero THEN Minus(totalInflow, node.maxThreshold)
      ELSE buildingOutflow(totalInflow, node.minThreshold, node.maxThreshold, buildingRange)

getFlowZone(node) ==
  LET totalInflow == OrZero(node.totalInflow)
  IN  IF Less(totalInflow, node.minThreshold) THEN "deficit"
      ELSE IF Less(totalInflow, capacityThresholdOf(node)) THEN "building"
      ELSE "capacity"

nodeErrors(ns, node) ==
  (IF Less(node.minThreshold, Zero) THEN << << "minNegative", node.id >> >> ELSE << >>)
  \o (IF Less(node.maxThreshold, Zero) THEN << << "maxNegative", node.id >> >> ELSE << >>)
  \o (IF Less(node.maxThreshold, node.minThreshold)
      THEN << << "minExceedsMax", node.id >> >> ELSE << >>)
  \o (IF Less(node.externalInflow, Zero)
      THEN << << "inflowNegative", node.id >> >> ELSE << >>)
  \o allocationErrors(ns, node)
  \o (IF Less(AllocationSlack, TotalAllocation(node))
      THEN << << "totalExceeds", node.id >> >> ELSE << >>)

nodeWarnings(ns, node) ==
  IF Len(node.allocations) = 0 /\ Len(ns) > 1
  THEN << << "noOutgoing", node.id >> >> ELSE << >>

validateNetworkV2(ns) ==
  IF Len(ns) = 0
  THEN [valid |-> FALSE, errors |-> << << "emptyNetwork" >> >>, warnings |-> << >>]
  ELSE LET errors == Flatten([k \in 1..Len(ns) |-> nodeErrors(ns, ns[k])])
           warnings == Flatten([k \in 1..Len(ns) |-> nodeWarnings(ns, ns[k])])
       IN  [valid |-> Len(errors) = 0, errors |-> errors, warnings |-> warnings]

(***************************************************************************)
(* Continuous engine: one round of the fixed-point iteration               *)
(***************************************************************************)
initializeNodes(ns) ==
  [k \in 1..Len(ns) |->
     [ns[k] EXCEPT !.totalInflow = ns[k].externalInflow, !.totalOutflow = Zero,
                   !.balance = Zero]]

withOutflows(ns) ==
  [k \in 1..Len(ns) |-> [ns[k] EXCEPT !.totalOutflow = calculateOutflow(ns[k])]]

flowShareOfFullScale(outflow, percentage, totalAllocation) ==
  Times(outflow, Over(percentage, Num(FullScale)))

flowShare(outflow, percentage, totalAllocation) ==
  Times(outflow, Over(percentage, totalAllocation))

allocatedFlows(ns, source) ==
  LET outflow == OrZero(source.totalOutflow)
      totalAllocation == TotalAllocation(source)
  IN  IF Less(Zero, outflow) /\ Less(Zero, totalAllocation)
      THEN SelectSeq(
             [j \in 1..Len(source.allocations) |->
                << source.allocations[j][1],
                   flowShare(outflow, source.allocations[j][2], totalAllocation) >>],
             LAMBDA e : e[1] \in IdsOf(ns))
      ELSE << >>

RECURSIVE addFlows(_, _)
addFlows(newInflows, flows) ==
  IF flows = << >> THEN newInflows
  ELSE addFlows(MapSet(newInflows, Head(flows)[1],
                       Plus(MapGetOr0(newInflows, Head(flows)[1]), Head(flows)[2])),
                Tail(flows))

newInflowsOf(ns) ==
  addFlows(MapFromEntries([k \in 1..Len(ns) |-> << ns[k].id, ns[k].externalInflow >>]),
           Flatten([k \in 1..Len(ns) |-> allocatedFlows(ns, ns[k])]))

RECURSIVE MaxSeq(_)
MaxSeq(s) == IF s = << >> THEN Zero ELSE MathMax(Head(s), MaxSeq(Tail(s)))

maxChangeOfFirstNode(ns, newInflows) ==
  MathAbs(Minus(MapGetOr0(newInflows, ns[1].id), OrZero(ns[1].totalInflow)))

maxChangeOf(ns, newInflows) ==
  MaxSeq([k \in 1..Len(ns) |->
            MathAbs(Minus(MapGetOr0(newInflows, ns[k].id), OrZero(ns[k].totalInflow)))])

steadyRoundFirstNodeAhead(ns) ==
  LET early == newInflowsOf(withOutflows(ns))
      ahead == [ns EXCEPT ![1].totalInflow = MapGetOr0(early, ns[1].id)]
      out == withOutflows(ahead)
      newInflows == newInflowsOf(out)
  IN  [maxChange |-> maxChangeOf(ns, newInflows),
       nodes     |-> [k \in 1..Len(out) |->
                        [out[k] EXCEPT !.totalInflow = MapGetOr0(newInflows, out[k].id)]]]

steadyRound(ns) ==
  LET out == withOutflows(ns)
      newInflows == newInflowsOf(out)
  IN  [maxChange |-> maxChangeOf(out, newInflows),
       nodes     |-> [k \in 1..Len(out) |->
                        [out[k] EXCEPT !.totalInflow = MapGetOr0(newInflows, out[k].id)]]]

(***************************************************************************)
(* Continuous engine: the returned FlowNetwork                             *)
(***************************************************************************)
edgesFromUnnormalized(source) ==
  LET outflow == OrZero(source.totalOutflow)
  IN  IF Less(Zero, outflow) /\ Less(Zero, TotalAllocation(source))
      THEN SelectSeq(
             [j \in 1..Len(source.allocations) |->
                [source     |-> source.id,
                 target     |-> source.allocations[j][1],
                 flowRate   |-> Over(Times(outflow, source.allocations[j][2]), Num(FullScale)),
                 percentage |-> source.allocations[j][2]]],
             LAMBDA e : Less(Zero, e.flowRate))
      ELSE << >>

edgesFrom(source) ==
  LET outflow == OrZero(source.totalOutflow)
      totalAllocation == TotalAllocation(source)
  IN  IF Less(Zero, outflow) /\ Less(Zero, totalAllocation)
      THEN SelectSeq(
             [j \in 1..Len(source.allocations) |->
                [source     |-> source.id,
                 target     |-> source.allocations[j][1],
                 flowRate   |-> flowShare(outflow, source.allocations[j][2], totalAllocation),
                 percentage |-> source.allocations[j][2]]],
             LAMBDA e : Less(Zero, e.flowRate))
      ELSE << >>

edgesOf(ns) == Flatten([k \in 1..Len(ns) |-> edgesFrom(ns[k])])

unallocatedOfUnconnected(node) ==
  IF TotalAllocation(node) = Zero THEN OrZero(node.totalOutflow) ELSE Zero

unallocatedOf(node) ==
  Over(Times(OrZero(node.totalOutflow),
             MathMax(Zero, Minus(Num(FullScale), TotalAllocation(node)))),
       Num(FullScale))

totalUnallocatedOverflow(ns) == SumSeq([k \in 1..Len(ns) |-> unallocatedOf(ns[k])])

overflowNodeOf(ns, epsilon) ==
  IF Less(epsilon, totalUnallocatedOverflow(ns))
  THEN << [id |-> "overflow", totalInflow |-> totalUnallocatedOverflow(ns)] >>
  ELSE << >>

flowNetwork(ns, epsilon, conv, count) ==
  [nodes                |-> ns,
   edges                |-> edgesOf(ns),
   overflowNode         |-> overflowNodeOf(ns, epsilon),
   totalExternalInflow  |-> SumSeq([k \in 1..Len(ns) |-> ns[k].externalInflow]),
   totalNetworkCapacity |-> SumSeq([k \in 1..Len(ns) |-> ns[k].maxThreshold]),
   totalNetworkNeeds    |-> SumSeq([k \in 1..Len(ns) |-> ns[k].minThreshold]),
   converged            |-> conv,
   iterations           |-> count]

(***************************************************************************)
(* Continuous engine: inputs                                               *)
(***************************************************************************)
NodeProfile(ext, mn, mx) ==
  [externalInflow |-> Num(ext), minThreshold |-> Num(mn), maxThreshold |-> Num(mx)]

NodeProfiles ==
  { NodeProfile(300, 100, 200), NodeProfile(0, 100, 200), NodeProfile(150, 100, 200),
    NodeProfile(100, 0, 100) }

BuildNodes(n, profs, topology, ids) ==
  [k \in 1..n |->
     [id             |-> ids[k],
      externalInflow |-> profs[k].externalInflow,
      minThreshold   |-> profs[k].minThreshold,
      maxThreshold   |-> profs[k].maxThreshold,
      allocations    |-> allocationsFor(topology, k, n, ids),
      totalInflow    |-> Undefined,
      totalOutflow   |-> Undefined,
      balance        |-> Undefined]]

WithNodeDefect(node, defect, missingId) ==
  CASE defect = "minNegative"     -> [node EXCEPT !.minThreshold = Num(-100)]
    [] defect = "maxNegative"     -> [node EXCEPT !.minThreshold = Num(-200), !.maxThreshold = Num(-100)]
    [] defect = "minExceedsMax"   -> [node EXCEPT !.minThreshold = Num(300)]
    [] defect = "balanceNegative" -> [node EXCEPT !.externalInflow = Num(-50)]
    [] defect = "targetMissing"   -> [node EXCEPT !.allocations = Append(@, << missingId, Num(50) >>)]
    [] defect = "selfAllocation"  -> [node EXCEPT !.allocations = Append(@, << node.id, Num(50) >>)]
    [] defect = "totalExceeds"    -> [node EXCEPT !.allocations = << << @[1][1], Num(60) >>, << missingId, Num(60) >> >>]

NodeNetworks ==
  { << >> } \cup
  UNION { { BuildNodes(n, profs, topology, PlainIds) :
              profs \in [1..n -> NodeProfiles], topology \in Topologies } :
          n \in 1..MaxAccounts }
  \cup
  UNION { { LET base == BuildNodes(n, [k \in 1..n |-> NodeProfile(300, 100, 200)], "ring", PlainIds)
            IN  [base EXCEPT ![d] = WithNodeDefect(base[d], defect, PlainIds[n + 1])] :
              d \in 1..n, defect \in Defects } :
          n \in 2..MaxAccounts }

NodeSlackFamily ==
  { withSecondTarget(BuildNodes(3, [k \in 1..3 |-> NodeProfile(300, 100, 200)], "ring", PlainIds), w) :
      w \in SecondWeights }

ValidatedNodeNetworks == NodeNetworks \cup NodeSlackFamily

InitSteadyState ==
  /\ entry = "calculateSteadyState"
  /\ nodes \in NodeNetworks
  /\ given = nodes
  /\ accounts = << >>
  /\ network = << >>
  /\ funding = Zero
  /\ cfg \in { [maxIterations |-> m, epsilon |-> e] :
                m \in 1..MaxIterationsBound, e \in { V2Epsilon, CoarseEpsilon } }
  /\ pc = "call"
  /\ i = 0
  /\ iterations = 0
  /\ converged = FALSE
  /\ initialBalances = << >>
  /\ result = << >>
  /\ thrown = << >>
  /\ previous = << >>

(***************************************************************************)
(* calculateSteadyState                                                    *)
(***************************************************************************)
steadyLoopContinues(index, maxIterations) == index < maxIterations

SteadyStateThrow ==
  /\ entry = "calculateSteadyState" /\ pc = "call"
  /\ ~validateNetworkV2(nodes).valid
  /\ thrown' = << invalidNetworkError(validateNetworkV2(nodes)) >>
  /\ pc' = "thrown"
  /\ UNCHANGED << previous, entry, given, accounts, nodes, network, funding, cfg, i, iterations,
                  converged, initialBalances, result >>

SteadyStateInitialize ==
  /\ entry = "calculateSteadyState" /\ pc = "call"
  /\ validateNetworkV2(nodes).valid
  /\ nodes' = initializeNodes(nodes)
  /\ converged' = FALSE
  /\ iterations' = 0
  /\ i' = 0
  /\ pc' = "loop"
  /\ UNCHANGED << previous, entry, given, accounts, network, funding, cfg, initialBalances, result,
                  thrown >>

SteadyStateRound ==
  /\ entry = "calculateSteadyState" /\ pc = "loop"
  /\ ~converged /\ steadyLoopContinues(i, cfg.maxIterations)
  /\ LET round == steadyRound(nodes)
     IN  /\ iterations' = iterations + 1
         /\ nodes' = round.nodes
         /\ IF Less(round.maxChange, cfg.epsilon)
            THEN converged' = TRUE /\ i' = i
            ELSE converged' = FALSE /\ i' = i + 1
  /\ UNCHANGED << previous, entry, pc, given, accounts, network, funding, cfg, initialBalances, result,
                  thrown >>

SteadyStateReturn ==
  /\ entry = "calculateSteadyState" /\ pc = "loop"
  /\ converged \/ ~steadyLoopContinues(i, cfg.maxIterations)
  /\ result' = << flowNetwork(nodes, cfg.epsilon, converged, iterations) >>
  /\ pc' = "returned"
  /\ UNCHANGED << previous, entry, given, accounts, nodes, network, funding, cfg, i, iterations,
                  converged, initialBalances, thrown >>

(***************************************************************************)
(* tbff: derived account fields and network totals (utils)                 *)
(***************************************************************************)
StatusEpsilon == Rat(1, 100)

getAccountStatusMinimumFirst(account) ==
  IF Less(account.balance, account.minThreshold) THEN "deficit"
  ELSE IF Less(MathAbs(Minus(account.balance, account.minThreshold)), StatusEpsilon)
       THEN "minimum"
  ELSE IF LessEq(account.maxThreshold, account.balance) THEN "overflow"
  ELSE "healthy"

getAccountStatus(account) ==
  IF Less(account.balance, account.minThreshold) THEN "deficit"
  ELSE IF LessEq(account.maxThreshold, account.balance) THEN "overflow"
  ELSE IF Less(MathAbs(Minus(account.balance, account.minThreshold)), StatusEpsilon)
       THEN "minimum"
  ELSE "healthy"

calculateShortfall(account) == MathMax(Zero, Minus(account.minThreshold, account.balance))

calculateCapacity(account) == MathMax(Zero, Minus(account.maxThreshold, account.balance))

calculateAccountOverflow(account) == MathMax(Zero, Minus(account.balance, account.maxThreshold))

updateAccountComputedProperties(account) ==
  [account EXCEPT !.status    = getAccountStatus(account),
                  !.shortfall = calculateShortfall(account),
                  !.capacity  = calculateCapacity(account),
                  !.overflow  = calculateAccountOverflow(account)]

calculateNetworkTotals(net) ==
  [net EXCEPT
     !.totalFunds     = SumSeq([k \in 1..Len(net.accounts) |-> net.accounts[k].balance]),
     !.totalShortfall = SumSeq([k \in 1..Len(net.accounts) |-> net.accounts[k].shortfall]),
     !.totalCapacity  = SumSeq([k \in 1..Len(net.accounts) |-> net.accounts[k].capacity]),
     !.totalOverflow  = SumSeq([k \in 1..Len(net.accounts) |-> net.accounts[k].overflow])]

(***************************************************************************)
(* tbff: initialDistribution (algorithms)                                  *)
(***************************************************************************)
withBalanceKeepsDerived(acc, newBalance) == [acc EXCEPT !.balance = newBalance]

withBalance(acc, newBalance) ==
  updateAccountComputedProperties([acc EXCEPT !.balance = newBalance])

shortfallShare(shortfall, totalShortfall, fundingAmount) ==
  Times(Over(shortfall, totalShortfall), fundingAmount)

distributeProportionallyByShortfall(net, fundingAmount, totalShortfall) ==
  calculateNetworkTotals(
    [net EXCEPT !.accounts =
       [k \in 1..Len(net.accounts) |->
          LET acc == net.accounts[k]
              shortfall == MathMax(Zero, Minus(acc.minThreshold, acc.balance))
          IN  IF shortfall = Zero THEN acc
              ELSE withBalance(acc, Plus(acc.balance,
                                         shortfallShare(shortfall, totalShortfall, fundingAmount)))]])

fillAllMinimums(net) ==
  calculateNetworkTotals(
    [net EXCEPT !.accounts =
       [k \in 1..Len(net.accounts) |->
          LET acc == net.accounts[k]
              shortfall == MathMax(Zero, Minus(acc.minThreshold, acc.balance))
          IN  IF shortfall = Zero THEN acc ELSE withBalance(acc, acc.minThreshold)]])

distributeEvenly(net, fundingAmount) ==
  LET perAccount == Over(fundingAmount, Num(Len(net.accounts)))
  IN  calculateNetworkTotals(
        [net EXCEPT !.accounts =
           [k \in 1..Len(net.accounts) |->
              withBalance(net.accounts[k], Plus(net.accounts[k].balance, perAccount))]])

capacityShare(capacity, totalCapacity, fundingAmount) ==
  Times(Over(capacity, totalCapacity), fundingAmount)

distributeByCapacity(net, fundingAmount) ==
  LET totalCapacity ==
        SumSeq([k \in 1..Len(net.accounts) |->
                  MathMax(Zero, Minus(net.accounts[k].maxThreshold, net.accounts[k].balance))])
  IN  IF LessEq(fundingAmount, Zero) THEN net
      ELSE IF totalCapacity = Zero THEN distributeEvenly(net, fundingAmount)
      ELSE calculateNetworkTotals(
             [net EXCEPT !.accounts =
                [k \in 1..Len(net.accounts) |->
                   LET acc == net.accounts[k]
                       capacity == MathMax(Zero, Minus(acc.maxThreshold, acc.balance))
                   IN  IF capacity = Zero THEN acc
                       ELSE withBalance(acc, Plus(acc.balance,
                                                  capacityShare(capacity, totalCapacity,
                                                                fundingAmount)))]])

initialDistribution(net, externalFunding) ==
  LET totalShortfall ==
        SumSeq([k \in 1..Len(net.accounts) |->
                  MathMax(Zero, Minus(net.accounts[k].minThreshold, net.accounts[k].balance))])
  IN  IF LessEq(externalFunding, Zero) THEN net
      ELSE IF Less(externalFunding, totalShortfall)
           THEN distributeProportionallyByShortfall(net, externalFunding, totalShortfall)
      ELSE distributeByCapacity(fillAllMinimums(net), Minus(externalFunding, totalShortfall))

createAccount(id, prof) ==
  updateAccountComputedProperties(
    [id |-> id, balance |-> prof.balance, minThreshold |-> prof.minThreshold,
     maxThreshold |-> prof.maxThreshold,
     status |-> "deficit", shortfall |-> Zero, capacity |-> Zero, overflow |-> Zero])

TbffNetworks ==
  UNION { { calculateNetworkTotals(
              [accounts |-> [k \in 1..n |-> createAccount(PlainIds[k], profs[k])],
               totalFunds |-> Zero, totalShortfall |-> Zero, totalCapacity |-> Zero,
               totalOverflow |-> Zero]) :
              profs \in [1..n -> Profiles] } :
          n \in 1..MaxAccounts }

InitTbff ==
  /\ entry = "initialDistribution"
  /\ network \in TbffNetworks
  /\ given = network
  /\ accounts = << >>
  /\ nodes = << >>
  /\ funding \in { Num(f) : f \in Fundings }
  /\ cfg = [maxIterations |-> 0, epsilon |-> Zero]
  /\ pc = "call"
  /\ i = 0
  /\ iterations = << >>
  /\ converged = FALSE
  /\ initialBalances = << >>
  /\ result = << >>
  /\ thrown = << >>
  /\ previous = << >>

InitialDistribution ==
  /\ entry = "initialDistribution" /\ pc = "call"
  /\ result' = << initialDistribution(network, funding) >>
  /\ pc' = "returned"
  /\ UNCHANGED << previous, entry, given, accounts, nodes, network, funding, cfg, i, iterations,
                  converged, initialBalances, thrown >>

(***************************************************************************)
(* Specification                                                           *)
(***************************************************************************)
(***************************************************************************)
(* A caller that calls again: on the accounts a converged run left         *)
(***************************************************************************)
FollowUps == { "runDistribution", "runTargetedDistribution" }

kept(kind, input, returned) == [kind |-> kind, given |-> input, result |-> returned]

CallAgainOnResult ==
  /\ entry = "runDistribution" /\ pc = "returned" /\ previous = << >>
  /\ result[1].converged
  /\ entry' \in FollowUps
  /\ previous' = << kept("onResult", given, result[1]) >>
  /\ given' = accounts
  /\ funding' = Zero
  /\ pc' = "call"
  /\ i' = 0
  /\ iterations' = << >>
  /\ converged' = FALSE
  /\ initialBalances' = << >>
  /\ result' = << >>
  /\ UNCHANGED << accounts, nodes, network, cfg, thrown >>

(***************************************************************************)
(* A caller that runs runDistribution with funding 0 on an identical copy  *)
(* of the accounts runTargetedDistribution was given                       *)
(***************************************************************************)
CallAgainOnCopy ==
  /\ entry = "runTargetedDistribution" /\ pc = "returned" /\ previous = << >>
  /\ validateNetwork(given).valid
  /\ entry' = "runDistribution"
  /\ previous' = << kept("copy", given, result[1]) >>
  /\ accounts' = given
  /\ funding' = Zero
  /\ pc' = "call"
  /\ i' = 0
  /\ iterations' = << >>
  /\ converged' = FALSE
  /\ initialBalances' = << >>
  /\ result' = << >>
  /\ UNCHANGED << given, nodes, network, cfg, thrown >>

(***************************************************************************)
(* A caller that calls again: on the same network with every outgoing      *)
(* weight multiplied by one positive constant                              *)
(***************************************************************************)
ScaleFactors == { Rat(1, 2), Num(2) }

scaleWeights(accts, c) ==
  [k \in 1..Len(accts) |->
     [accts[k] EXCEPT !.allocations =
        [j \in 1..Len(accts[k].allocations) |->
           << accts[k].allocations[j][1], Times(c, accts[k].allocations[j][2]) >>]]]

CallAgainScaled ==
  /\ entry = "runDistribution" /\ pc = "returned" /\ previous = << >>
  /\ \E c \in ScaleFactors :
       /\ validateNetwork(scaleWeights(given, c)).valid
       /\ accounts' = scaleWeights(given, c)
       /\ given' = scaleWeights(given, c)
  /\ previous' = << kept("scaled", given, result[1]) >>
  /\ pc' = "call"
  /\ i' = 0
  /\ iterations' = << >>
  /\ converged' = FALSE
  /\ initialBalances' = << >>
  /\ result' = << >>
  /\ UNCHANGED << entry, nodes, network, funding, cfg, thrown >>

(***************************************************************************)
(* A caller that calls again: on the same nodes in another array order     *)
(***************************************************************************)
Reorderings(n) ==
  { p \in [1..n -> 1..n] : (\A a, b \in 1..n : p[a] = p[b] => a = b) /\ (\E a \in 1..n : p[a] # a) }

reorder(ns, p) == [k \in 1..Len(ns) |-> ns[p[k]]]

CallAgainReordered ==
  /\ entry = "calculateSteadyState" /\ pc = "returned" /\ previous = << >>
  /\ \E p \in Reorderings(Len(given)) :
       /\ nodes' = reorder(given, p)
       /\ given' = reorder(given, p)
  /\ previous' = << kept("reordered", given, result[1]) >>
  /\ pc' = "call"
  /\ i' = 0
  /\ iterations' = 0
  /\ converged' = FALSE
  /\ result' = << >>
  /\ UNCHANGED << entry, accounts, network, funding, cfg, initialBalances, thrown >>

(***************************************************************************)
(* calculateOutflow called on one node                                     *)
(***************************************************************************)
OutflowThresholds ==
  { << 0, 0 >>, << 0, 100 >>, << 100, 100 >>, << 100, 200 >>, << 200, 200 >>, << 50, 200 >>,
    << 150, 100 >>, << 300, 200 >> }

InflowsAround(mn, mx) ==
  { Undefined, Zero, Rat(mn, 2), Num(mn), Num(mx), Rat(2 * mn + 3 * mx, 4), Rat(3 * mx, 2),
    Rat(3 * mx + 200, 2) }

OutflowNodes ==
  UNION { { [id |-> "a", externalInflow |-> Zero, minThreshold |-> Num(t[1]),
             maxThreshold |-> Num(t[2]), allocations |-> << >>, totalInflow |-> x,
             totalOutflow |-> Undefined, balance |-> Undefined] :
              x \in InflowsAround(t[1], t[2]) } :
          t \in OutflowThresholds }

InitOutflow ==
  /\ entry = "calculateOutflow"
  /\ nodes \in { << node >> : node \in OutflowNodes }
  /\ given = nodes
  /\ accounts = << >>
  /\ network = << >>
  /\ funding = Zero
  /\ cfg = [maxIterations |-> 0, epsilon |-> Zero]
  /\ pc = "call"
  /\ i = 0
  /\ iterations = 0
  /\ converged = FALSE
  /\ initialBalances = << >>
  /\ result = << >>
  /\ thrown = << >>
  /\ previous = << >>

CalculateOutflow ==
  /\ entry = "calculateOutflow" /\ pc = "call"
  /\ result' = << calculateOutflow(nodes[1]) >>
  /\ pc' = "returned"
  /\ UNCHANGED << previous, entry, given, accounts, nodes, network, funding, cfg, i, iterations,
                  converged, initialBalances, thrown >>

(***************************************************************************)
(* validateNetwork called on its own (either engine's)                     *)
(***************************************************************************)
InitValidate ==
  /\ \/ entry = "validateNetwork" /\ accounts \in ValidatedNetworks /\ nodes = << >> /\ given = accounts
     \/ entry = "validateNetworkV2" /\ nodes \in ValidatedNodeNetworks /\ accounts = << >>
          /\ given = nodes
  /\ network = << >>
  /\ funding = Zero
  /\ cfg = [maxIterations |-> 0, epsilon |-> Zero]
  /\ pc = "call"
  /\ i = 0
  /\ iterations = 0
  /\ converged = FALSE
  /\ initialBalances = << >>
  /\ result = << >>
  /\ thrown = << >>
  /\ previous = << >>

ValidateNetwork ==
  /\ entry \in { "validateNetwork", "validateNetworkV2" } /\ pc = "call"
  /\ result' = << IF entry = "validateNetwork" THEN validateNetwork(accounts)
                  ELSE validateNetworkV2(nodes) >>
  /\ pc' = "returned"
  /\ UNCHANGED << previous, entry, given, accounts, nodes, network, funding, cfg, i, iterations,
                  converged, initialBalances, thrown >>

(***************************************************************************)
(* getAccountStatus called on one account                                  *)
(***************************************************************************)
StatusThresholds ==
  { << Num(100), Num(100) >>, << Num(100), Num(200) >>, << Zero, Num(100) >>,
    << Num(100), Rat(20001, 200) >> }

BalancesAround(mn, mx) ==
  { Minus(mn, Num(1)), Minus(mn, Rat(1, 200)), mn, Plus(mn, Rat(1, 200)), Plus(mn, Rat(1, 100)),
    Plus(mn, Num(1)), Minus(mx, Rat(1, 200)), mx, Plus(mx, Num(1)) }

StatusAccounts ==
  UNION { { [id |-> "a", balance |-> b, minThreshold |-> t[1], maxThreshold |-> t[2],
             status |-> "deficit", shortfall |-> Zero, capacity |-> Zero, overflow |-> Zero] :
              b \in BalancesAround(t[1], t[2]) } :
          t \in StatusThresholds }

InitStatus ==
  /\ entry = "getAccountStatus"
  /\ accounts \in { << a >> : a \in StatusAccounts }
  /\ given = accounts
  /\ nodes = << >>
  /\ network = << >>
  /\ funding = Zero
  /\ cfg = [maxIterations |-> 0, epsilon |-> Zero]
  /\ pc = "call"
  /\ i = 0
  /\ iterations = 0
  /\ converged = FALSE
  /\ initialBalances = << >>
  /\ result = << >>
  /\ thrown = << >>
  /\ previous = << >>

GetAccountStatus ==
  /\ entry = "getAccountStatus" /\ pc = "call"
  /\ result' = << getAccountStatus(accounts[1]) >>
  /\ pc' = "returned"
  /\ UNCHANGED << previous, entry, given, accounts, nodes, network, funding, cfg, i, iterations,
                  converged, initialBalances, thrown >>

Init ==
  \/ InitDiscrete \/ InitSteadyState \/ InitTbff \/ InitOutflow \/ InitValidate \/ InitStatus
  \/ InitPreset

Next ==
  \/ RunDistributionThrow
  \/ RunDistributionPhaseA
  \/ RunDistributionRound
  \/ RunDistributionReturn
  \/ RunTargetedEnter
  \/ RunTargetedRound
  \/ RunTargetedReturn
  \/ SteadyStateThrow
  \/ SteadyStateInitialize
  \/ SteadyStateRound
  \/ SteadyStateReturn
  \/ InitialDistribution
  \/ CallAgainOnResult
  \/ CallAgainScaled
  \/ CallAgainReordered
  \/ CalculateOutflow
  \/ ValidateNetwork
  \/ GetAccountStatus
  \/ CallAgainOnCopy

Spec == Init /\ [][Next]_vars

(***************************************************************************)
(* Vocabulary of the properties                                            *)
(***************************************************************************)
WithinEpsilon(x, y, epsilon) == LessEq(MathAbs(Minus(x, y)), epsilon)

AllFullScale(accts) ==
  \A k \in 1..Len(accts) : TotalAllocation(accts[k]) = Num(FullScale)

TotalShortfall(accts) == SumSeq([k \in 1..Len(accts) |-> shortfallOf(accts[k])])

InRunDistribution == entry = "runDistribution" /\ pc \in { "loop", "returned" }

AfterPhaseA == entry = "runDistribution" /\ pc = "loop" /\ i = 0 /\ iterations = << >>

\* C1: in runDistribution on a valid network whose accounts all have weights
\* summing to 100, with funding F >= 0, the total balance after Phase A and
\* after every Phase B round equals the initial total plus F, within epsilon.
C1_Conservation ==
  (InRunDistribution /\ AllFullScale(given) /\ LessEq(Zero, funding))
    => WithinEpsilon(TotalBalance(accounts), Plus(TotalBalance(given), funding), cfg.epsilon)

Discrete == entry \in { "runDistribution", "runTargetedDistribution" }

GivenIsInvalid ==
  CASE Discrete -> ~validateNetwork(given).valid
    [] entry = "calculateSteadyState" -> ~validateNetworkV2(given).valid
    [] OTHER -> FALSE

GivenErrors ==
  IF Discrete THEN validateNetwork(given).errors ELSE validateNetworkV2(given).errors

\* C2: every entry point (runDistribution, runTargetedDistribution,
\* calculateSteadyState) called on a network that fails validation raises one
\* failure carrying the whole error list and leaves every field of every
\* input record as it was.
C2_FailFast ==
  (GivenIsInvalid /\ pc # "call")
    => /\ pc = "thrown"
       /\ Len(thrown) = 1
       /\ thrown[1].errors = GivenErrors
       /\ accounts = (IF Discrete THEN given ELSE << >>)
       /\ nodes = (IF Discrete THEN << >> ELSE given)

Engines == { "runDistribution", "runTargetedDistribution", "calculateSteadyState" }

RoundsExecuted == IF Discrete THEN Len(iterations) ELSE iterations

ReportedRounds == IF Discrete THEN result[1].iterationCount ELSE result[1].iterations

\* C3: for every valid network and every positive maxIterations = N, the three
\* engines execute at most N rounds and report at most N of them
\* (iterationCount <= N, iterations <= N), also when nothing converges.
C3_IterationCap ==
  (entry \in Engines /\ ~GivenIsInvalid)
    => /\ i <= cfg.maxIterations
       /\ RoundsExecuted <= cfg.maxIterations
       /\ pc = "returned" => ReportedRounds <= cfg.maxIterations
       /\ (pc = "loop" /\ RoundsExecuted = cfg.maxIterations)
            => ~ENABLED (RunDistributionRound \/ RunTargetedRound \/ SteadyStateRound)

\* C3 witness: a run of several rounds that never converged has returned at the cap.
C3_Witness ==
  /\ entry \in { "runDistribution", "calculateSteadyState" }
  /\ ~GivenIsInvalid
  /\ pc = "returned"
  /\ ~result[1].converged
  /\ cfg.maxIterations >= 2
  /\ ReportedRounds = cfg.maxIterations

(***************************************************************************)
(* What a round's redistribution owes each account, stated from the        *)
(* recorded overflows and the allocation weights                           *)
(***************************************************************************)
WeightTo(a, targetId) == MapGetOr0(a.allocations, targetId)

OwedBy(a, overflows, targetId) ==
  IF TotalAllocation(a) = Zero THEN Zero
  ELSE Over(Times(MapGetOr0(overflows, a.id), WeightTo(a, targetId)), TotalAllocation(a))

OwedTo(accts, overflows, targetId) ==
  SumSeq([k \in 1..Len(accts) |-> OwedBy(accts[k], overflows, targetId)])

AfterRedistribution(accts, record) ==
  MapFromEntries([k \in 1..Len(accts) |->
    << accts[k].id,
       Plus(MapGetOr0(record.balances, accts[k].id),
            OwedTo(accts, record.overflows, accts[k].id)) >>])

\* C4: runDistribution on a valid network returns converged = false exactly
\* when each of the maxIterations rounds had totalOverflow >= epsilon; then
\* iterationCount = maxIterations and finalBalances are the balances the last
\* redistribution step left.
C4_NonConvergence ==
  (entry = "runDistribution" /\ pc = "returned")
    => LET r == result[1]
           its == r.iterations
       IN  /\ (~r.converged) <=>
                 /\ Len(its) = cfg.maxIterations
                 /\ \A k \in 1..Len(its) : ~Less(its[k].totalOverflow, cfg.epsilon)
           /\ (~r.converged)
                => /\ r.iterationCount = cfg.maxIterations
                   /\ r.finalBalances = AfterRedistribution(given, its[Len(its)])

\* C4 witness: a run of at least two rounds returned without converging, and its
\* last round moved funds.
C4_Witness ==
  /\ entry = "runDistribution" /\ pc = "returned"
  /\ ~result[1].converged
  /\ result[1].iterationCount >= 2
  /\ result[1].finalBalances # result[1].iterations[result[1].iterationCount].balances

(***************************************************************************)
(* Phase A, stated from the thresholds and balances before the call        *)
(***************************************************************************)
FilledBalance(a) == IF Less(a.balance, a.minThreshold) THEN a.minThreshold ELSE a.balance

CapacityAfterFill(a) == MathMax(Zero, Minus(a.maxThreshold, FilledBalance(a)))

TotalCapacityAfterFill(accts) ==
  SumSeq([k \in 1..Len(accts) |-> CapacityAfterFill(accts[k])])

ScarcityHolds(before, after, F) ==
  Less(F, TotalShortfall(before))
    => \A k \in 1..Len(before) :
         LET s == shortfallOf(before[k])
         IN  IF Less(Zero, s)
             THEN /\ after[k].balance =
                       Plus(before[k].balance, Over(Times(F, s), TotalShortfall(before)))
                  /\ Less(after[k].balance, before[k].minThreshold)
             ELSE after[k].balance = before[k].balance

SufficiencyHolds(before, after, F) ==
  (LessEq(TotalShortfall(before), F) /\ Less(Zero, TotalCapacityAfterFill(before)))
    => \A k \in 1..Len(before) :
         after[k].balance =
           Plus(FilledBalance(before[k]),
                Over(Times(Minus(F, TotalShortfall(before)), CapacityAfterFill(before[k])),
                     TotalCapacityAfterFill(before)))

TbffReturned == entry = "initialDistribution" /\ pc = "returned"

\* C5: when funding F is less than the total shortfall, the initial
\* distribution (distributeInitial of the discrete engine, initialDistribution
\* of tbff) adds F * shortfall_i / totalShortfall to every account with positive
\* shortfall, leaves the others unchanged, and leaves every shortfalled account
\* strictly below its minThreshold.
C5_Scarcity ==
  /\ AfterPhaseA => ScarcityHolds(given, accounts, funding)
  /\ TbffReturned => ScarcityHolds(given.accounts, result[1].accounts, funding)

\* C5 witness: mins 100 and 200, balances 0, F = 150 gave balances 50 and 100.
C5_Witness ==
  /\ AfterPhaseA
  /\ funding = Num(150)
  /\ Len(given) = 2
  /\ given[1].balance = Zero /\ given[1].minThreshold = Num(100)
  /\ given[2].balance = Zero /\ given[2].minThreshold = Num(200)
  /\ accounts[1].balance = Num(50)
  /\ accounts[2].balance = Num(100)

\* C6: when F >= totalShortfall and the capacity left after filling the
\* minimums is positive, the initial distribution sets every shortfalled
\* account to its minThreshold and then adds
\* (F - totalShortfall) * capacity_i / totalCapacity, capacity measured after
\* the minimums are filled.
C6_Sufficiency ==
  /\ AfterPhaseA => SufficiencyHolds(given, accounts, funding)
  /\ TbffReturned => SufficiencyHolds(given.accounts, result[1].accounts, funding)

\* C6 witness: mins 100/100, maxes 200/300, balances 0, F = 500 gave 200 and 300.
C6_Witness ==
  /\ AfterPhaseA
  /\ funding = Num(500)
  /\ Len(given) = 2
  /\ given[1].balance = Zero /\ given[1].minThreshold = Num(100) /\ given[1].maxThreshold = Num(200)
  /\ given[2].balance = Zero /\ given[2].minThreshold = Num(100) /\ given[2].maxThreshold = Num(300)
  /\ accounts[1].balance = Num(200)
  /\ accounts[2].balance = Num(300)

ZeroCapacityCase(before, F) ==
  Less(TotalShortfall(before), F) /\ TotalCapacityAfterFill(before) = Zero

\* C7: in runDistribution, when F exceeds totalShortfall and no capacity is left
\* after the minimums are filled, the remainder is split evenly, so every
\* balance rises by (F - totalShortfall) / (number of accounts) and the excess
\* shows as overflow in the first Phase B round.
C7_EvenSplitFallback ==
  (InRunDistribution /\ ZeroCapacityCase(given, funding))
    => /\ AfterPhaseA =>
            \A k \in 1..Len(given) :
              accounts[k].balance =
                Plus(FilledBalance(given[k]),
                     Over(Minus(funding, TotalShortfall(given)), Num(Len(given))))
       /\ Len(iterations) >= 1 =>
            LessEq(Minus(funding, TotalShortfall(given)), iterations[1].totalOverflow)

(***************************************************************************)
(* Phase B rounds, stated from the last iteration record                   *)
(***************************************************************************)
LastRecord == iterations[Len(iterations)]

AfterMovingRound(engine) ==
  /\ entry = engine
  /\ pc \in { "loop", "returned" }
  /\ iterations # << >>
  /\ ~LastRecord.converged

RecordedUnder(record, a, targetId) == MapGetOr0(record.flows, flowKey(a.id, targetId))

\* C8: after every non-converged round of runDistribution, each account i with
\* recorded overflow o_i > 0 and total outgoing weight W_i > 0 has, for each of
\* its targets j, the amount o_i * w_ij / W_i recorded under the flow key
\* "i->j"; the amounts recorded for i sum to o_i; and every balance is the
\* clamped balance of the record plus exactly these transfers.
C8_RedistributionStep ==
  AfterMovingRound("runDistribution")
    => /\ balancesOf(accounts) = AfterRedistribution(given, LastRecord)
       /\ \A k \in 1..Len(given) :
            LET a == given[k]
                o == MapGetOr0(LastRecord.overflows, a.id)
            IN  (Less(Zero, o) /\ Less(Zero, TotalAllocation(a)))
                  => /\ \A j \in 1..Len(a.allocations) :
                          /\ MapHas(LastRecord.flows, flowKey(a.id, a.allocations[j][1]))
                          /\ RecordedUnder(LastRecord, a, a.allocations[j][1])
                               = Over(Times(o, a.allocations[j][2]), TotalAllocation(a))
                     /\ SumSeq([j \in 1..Len(a.allocations) |->
                                  RecordedUnder(LastRecord, a, a.allocations[j][1])]) = o

(***************************************************************************)
(* One round of a discrete engine, as a step                               *)
(***************************************************************************)
DiscreteRound == Discrete /\ pc = "loop" /\ Len(iterations') = Len(iterations) + 1

HasNoOutgoingWeight(a) == TotalAllocation(a) = Zero

LostOverflow(accts) ==
  SumSeq([k \in 1..Len(accts) |->
            IF HasNoOutgoingWeight(accts[k]) THEN overflowOf(accts[k]) ELSE Zero])

TargetsExist(accts) ==
  \A k \in 1..Len(accts) :
    \A j \in 1..Len(accts[k].allocations) : accts[k].allocations[j][1] \in IdsOf(accts)

SpecExampleLoss ==
  /\ Len(given) = 1
  /\ given[1].balance = Num(150) /\ given[1].minThreshold = Zero
  /\ given[1].maxThreshold = Num(100) /\ given[1].allocations = << >>
  /\ funding = Zero

\* C9: in every round of runDistribution and of runTargetedDistribution, an
\* account with positive overflow and zero total outgoing weight has that
\* overflow recorded and its recorded balance set to maxThreshold, and (on a
\* network whose allocation targets all exist) the total balance after the
\* round is the total before it minus the overflow of exactly these accounts:
\* exactly in a round that redistributes, within epsilon in the converging
\* round.  In the one-account example (min 0, max 100, balance 150, no
\* allocations) the run returns converged = true with total 100.
C9_IntentionalLoss ==
  /\ [][DiscreteRound =>
          LET record == iterations'[Len(iterations')]
          IN  /\ \A k \in 1..Len(accounts) :
                   (Less(Zero, overflowOf(accounts[k])) /\ HasNoOutgoingWeight(accounts[k]))
                     => /\ MapGetOr0(record.overflows, accounts[k].id) = overflowOf(accounts[k])
                        /\ MapGetOr0(record.balances, accounts[k].id) = accounts[k].maxThreshold
              /\ TargetsExist(accounts)
                   => IF record.converged
                      THEN WithinEpsilon(TotalBalance(accounts'),
                                         Minus(TotalBalance(accounts), LostOverflow(accounts)),
                                         cfg.epsilon)
                      ELSE TotalBalance(accounts')
                             = Minus(TotalBalance(accounts), LostOverflow(accounts))]_vars
  /\ [](  (Discrete /\ SpecExampleLoss /\ pc = "returned" /\ cfg.maxIterations >= 2)
            => /\ result[1].converged
               /\ TotalBalance(accounts) = Num(100))

\* C9 witness: the one-account example has run; 50 was recorded as overflow, the
\* balance is 100 and the run returned converged.
C9_Witness ==
  /\ Discrete /\ SpecExampleLoss /\ pc = "returned"
  /\ result[1].converged
  /\ iterations[1].overflows = << << given[1].id, Num(50) >> >>
  /\ iterations[1].flows = << >>
  /\ accounts[1].balance = Num(100)

\* C10: in every run of runDistribution (the network passed validation, so each
\* account's weights sum to at most 100), the totalOverflow recorded in round
\* k+1 is less than or equal to the one recorded in round k.
C10_OverflowDecay ==
  entry = "runDistribution"
    => \A k \in 1..(Len(iterations) - 1) :
         LessEq(iterations[k + 1].totalOverflow, iterations[k].totalOverflow)

\* C10 witness: a run recorded a positive overflow in its second round that is
\* strictly smaller than the overflow of its first round.
C10_Witness ==
  /\ entry = "runDistribution"
  /\ Len(iterations) >= 2
  /\ Less(Zero, iterations[2].totalOverflow)
  /\ Less(iterations[2].totalOverflow, iterations[1].totalOverflow)

(***************************************************************************)
(* A second call on the accounts of a converged run                        *)
(***************************************************************************)
OnResult == previous # << >> /\ previous[1].kind = "onResult"

BalancesWithin(accts, balances, epsilon) ==
  \A k \in 1..Len(accts) :
    WithinEpsilon(accts[k].balance, MapGetOr0(balances, accts[k].id), epsilon)

\* C11: after runDistribution returned converged = true, a second call on the
\* resulting accounts (runTargetedDistribution, or runDistribution with funding
\* 0) is accepted, converges in its first round, records no flows, and never
\* moves a balance by more than epsilon from the first call's finalBalances.
C11_Idempotence ==
  (OnResult /\ Discrete)
    => /\ pc # "thrown"
       /\ BalancesWithin(accounts, previous[1].result.finalBalances, cfg.epsilon)
       /\ Len(iterations) <= 1
       /\ iterations # << >>
            => /\ iterations[1].converged /\ converged
               /\ iterations[1].flows = << >>
       /\ pc = "returned"
            => /\ result[1].converged
               /\ result[1].iterationCount = 1
               /\ BalancesWithin(accounts, result[1].finalBalances, Zero)

\* C11 witness: the first call redistributed overflow over several rounds before
\* it converged, and the second call on its accounts has returned.
C11_Witness ==
  /\ OnResult /\ Discrete /\ pc = "returned"
  /\ previous[1].result.iterationCount >= 2
  /\ previous[1].result.iterations[1].flows # << >>
  /\ result[1].converged

(***************************************************************************)
(* A second call on the network with scaled weights                        *)
(***************************************************************************)
Scaled == previous # << >> /\ previous[1].kind = "scaled"

SameRound(r1, r2) ==
  /\ r1.balances = r2.balances
  /\ r1.overflows = r2.overflows
  /\ r1.flows = r2.flows
  /\ r1.totalOverflow = r2.totalOverflow
  /\ r1.converged = r2.converged

\* C12: for every valid network and every positive constant c for which the
\* network with every outgoing weight multiplied by c is still valid,
\* runDistribution on the scaled network returns the same per-round balances,
\* overflows and flows, the same finalBalances and the same converged flag as
\* on the original network.
C12_NormalizationInvariance ==
  (Scaled /\ entry = "runDistribution")
    => /\ pc # "thrown"
       /\ pc = "returned"
            => LET r == result[1]
                   o == previous[1].result
               IN  /\ Len(r.iterations) = Len(o.iterations)
                   /\ \A k \in 1..Len(r.iterations) : SameRound(r.iterations[k], o.iterations[k])
                   /\ r.finalBalances = o.finalBalances
                   /\ r.converged = o.converged

\* C12 witness: the scaled network really has other weights, and both runs
\* redistributed overflow to more than one target in their first round.
C12_Witness ==
  /\ Scaled /\ entry = "runDistribution" /\ pc = "returned"
  /\ given # previous[1].given
  /\ Len(result[1].iterations[1].flows) >= 2
  /\ \E k \in 1..Len(given) : Len(given[k].allocations) = 2

(***************************************************************************)
(* One round of calculateSteadyState, stated from the round's pre-state    *)
(***************************************************************************)
SteadyRoundStep ==
  entry = "calculateSteadyState" /\ pc = "loop" /\ iterations' = iterations + 1

SentTo(source, targetId) ==
  IF Less(Zero, calculateOutflow(source)) /\ Less(Zero, TotalAllocation(source))
  THEN Over(Times(calculateOutflow(source), WeightTo(source, targetId)), TotalAllocation(source))
  ELSE Zero

JacobiInflow(ns, k) ==
  Plus(ns[k].externalInflow, SumSeq([s \in 1..Len(ns) |-> SentTo(ns[s], ns[k].id)]))

Reordered == previous # << >> /\ previous[1].kind = "reordered"

NodeOf(ns, id) == ns[CHOOSE k \in 1..Len(ns) : ns[k].id = id]

\* C13: in every round of calculateSteadyState each node's new totalInflow is
\* its externalInflow plus, over all sources, calculateOutflow(source at its
\* previous-round totalInflow) * weight / (the source's weight sum), so nothing
\* read in a round was written in that round; and a call on the same nodes in
\* any other array order returns the same values for every node, the same
\* converged flag and the same number of rounds.
C13_JacobiUpdate ==
  /\ [][SteadyRoundStep =>
          \A k \in 1..Len(nodes) :
            /\ nodes'[k].totalInflow = JacobiInflow(nodes, k)
            /\ nodes'[k].totalOutflow = calculateOutflow(nodes[k])]_vars
  /\ []((Reordered /\ pc = "returned")
          => /\ result[1].converged = previous[1].result.converged
             /\ result[1].iterations = previous[1].result.iterations
             /\ \A k \in 1..Len(nodes) :
                  nodes[k] = NodeOf(previous[1].result.nodes, nodes[k].id))

\* C13 witness: three nodes were run in two array orders, and in the second run
\* some node's inflow of a later round came from another node's outflow.
C13_Witness ==
  /\ Reordered /\ pc = "returned"
  /\ Len(nodes) = 3
  /\ result[1].iterations >= 2
  /\ \E k \in 1..Len(nodes) : Less(nodes[k].externalInflow, nodes[k].totalInflow)

(***************************************************************************)
(* The stop rule of calculateSteadyState                                   *)
(***************************************************************************)
InSteadyState == entry = "calculateSteadyState"

LargestChange(ns) ==
  MaxSeq([k \in 1..Len(ns) |-> MathAbs(Minus(JacobiInflow(ns, k), OrZero(ns[k].totalInflow)))])

RoundsRun == IF converged THEN i + 1 ELSE i

\* C14: calculateSteadyState starts every node at totalInflow = externalInflow;
\* a round sets converged exactly when the largest |newInflow - oldInflow| over
\* the nodes is below epsilon; no round follows a round that converged, and the
\* call returns only after such a round or after maxIterations rounds; it
\* returns the converged flag of its last round with iterations equal to the
\* number of rounds executed.
C14_StopRule ==
  /\ [][(InSteadyState /\ pc = "call" /\ pc' = "loop")
          => \A k \in 1..Len(nodes') : nodes'[k].totalInflow = nodes'[k].externalInflow]_vars
  /\ [][SteadyRoundStep
          => /\ ~converged
             /\ converged' <=> Less(LargestChange(nodes), cfg.epsilon)]_vars
  /\ [][(InSteadyState /\ pc = "loop" /\ pc' = "returned")
          => (converged \/ i >= cfg.maxIterations)]_vars
  /\ []((InSteadyState /\ pc \in { "loop", "returned" }) => iterations = RoundsRun)
  /\ []((InSteadyState /\ pc = "returned")
          => /\ result[1].converged = converged
             /\ result[1].iterations = RoundsRun
             /\ result[1].iterations >= 1)

\* C14 witness: a call returned converged after at least two rounds and before
\* its iteration cap.
C14_Witness ==
  /\ InSteadyState /\ pc = "returned"
  /\ result[1].converged
  /\ result[1].iterations >= 2
  /\ result[1].iterations < cfg.maxIterations

(***************************************************************************)
(* calculateOutflow at the zone boundaries                                 *)
(***************************************************************************)
OutflowReturned == entry = "calculateOutflow" /\ pc = "returned"

OrderedThresholds(node) ==
  LessEq(Zero, node.minThreshold) /\ LessEq(node.minThreshold, node.maxThreshold)

IsNumber(x) == x[2] > 0

\* C15: for a node with 0 <= minThreshold <= maxThreshold, calculateOutflow at
\* totalInflow = minThreshold returns 0, and at totalInflow = 1.5 * maxThreshold
\* returns 1.5 * maxThreshold - maxThreshold, which is the value of the
\* building-zone formula at that boundary; and for every input, also one with
\* 1.5 * maxThreshold = minThreshold, the result is a number (nothing was
\* divided by zero).
C15_ZoneContinuity ==
  OutflowReturned
    => LET node == nodes[1]
           capacityThreshold == Times(Rat(3, 2), node.maxThreshold)
           range == Minus(capacityThreshold, node.minThreshold)
       IN  /\ IsNumber(result[1])
           /\ (OrderedThresholds(node) /\ node.totalInflow = node.minThreshold)
                => result[1] = Zero
           /\ (OrderedThresholds(node) /\ node.totalInflow = capacityThreshold)
                => /\ result[1] = Minus(capacityThreshold, node.maxThreshold)
                   /\ range # Zero
                        => result[1] = buildingOutflow(capacityThreshold, node.minThreshold,
                                                       node.maxThreshold, range)

\* C15 witness: calculateOutflow returned a positive value at the capacity
\* threshold of a node whose building zone is not empty.
C15_Witness ==
  /\ OutflowReturned
  /\ OrderedThresholds(nodes[1])
  /\ Less(nodes[1].minThreshold, nodes[1].maxThreshold)
  /\ nodes[1].totalInflow = Times(Rat(3, 2), nodes[1].maxThreshold)
  /\ Less(Zero, result[1])

(***************************************************************************)
(* Three identical nodes allocating in a cycle                             *)
(***************************************************************************)
Circle(ns) ==
  /\ Len(ns) = 3
  /\ \A k \in 1..3 :
       /\ ns[k].externalInflow = ns[1].externalInflow
       /\ ns[k].minThreshold = ns[1].minThreshold
       /\ ns[k].maxThreshold = ns[1].maxThreshold
       /\ Len(ns[k].allocations) = 1
       /\ ns[k].allocations[1][1] \in IdsOf(ns) \ { ns[k].id }
       /\ Less(Zero, ns[k].allocations[1][2])
  /\ \A j, k \in 1..3 : j # k => ns[j].allocations[1][1] # ns[k].allocations[1][1]

InCircle == InSteadyState /\ Circle(given) /\ pc \in { "loop", "returned" }

CircleShare(node) ==
  Over(Times(Rat(1, 2), node.maxThreshold),
       Minus(Times(Rat(3, 2), node.maxThreshold), node.minThreshold))

CircleEquilibrium(node) ==
  Over(Minus(Times(node.externalInflow,
                   Minus(Times(Rat(3, 2), node.maxThreshold), node.minThreshold)),
             Times(Times(Rat(1, 2), node.maxThreshold), node.minThreshold)),
       Minus(node.maxThreshold, node.minThreshold))

Sustainable(node) ==
  /\ LessEq(node.minThreshold, node.externalInflow)
  /\ LessEq(node.externalInflow, node.maxThreshold)
  /\ Less(node.minThreshold, node.maxThreshold)

Overloaded(node) == Less(node.maxThreshold, node.externalInflow)

\* C16 as stated: for any three nodes allocating in a cycle with identical
\* minThreshold, maxThreshold and externalInflow, calculateSteadyState returns
\* converged = true with the three totalInflow values equal within epsilon.
C16_CircleConverges ==
  (InSteadyState /\ Circle(given) /\ pc = "returned")
    => /\ result[1].converged
       /\ \A j, k \in 1..3 :
            WithinEpsilon(result[1].nodes[j].totalInflow, result[1].nodes[k].totalInflow,
                          cfg.epsilon)

\* C16 amended: for three identical nodes allocating in a cycle the three
\* totalInflow values are equal after every round.  With externalInflow below
\* minThreshold the call converges in its first round.  With minThreshold <=
\* externalInflow <= maxThreshold and minThreshold < maxThreshold every round
\* multiplies the distance to the equilibrium inflow by
\* 0.5 * max / (1.5 * max - min) < 1.  With externalInflow above maxThreshold
\* every round raises the inflow by at least externalInflow - maxThreshold, and
\* the call returns converged = false when epsilon is not larger than that.
C16_CircleEquilibrium ==
  /\ [](InCircle => \A k \in 1..3 : nodes[k].totalInflow = nodes[1].totalInflow)
  /\ []((InCircle /\ pc = "returned" /\ Less(given[1].externalInflow, given[1].minThreshold))
          => result[1].converged /\ result[1].iterations = 1)
  /\ [][(InCircle /\ SteadyRoundStep /\ Sustainable(given[1]))
          => /\ Less(CircleShare(given[1]), Num(1))
             /\ MathAbs(Minus(nodes'[1].totalInflow, CircleEquilibrium(given[1])))
                  = Times(CircleShare(given[1]),
                          MathAbs(Minus(nodes[1].totalInflow, CircleEquilibrium(given[1]))))]_vars
  /\ [][(InCircle /\ SteadyRoundStep /\ Overloaded(given[1]))
          => LessEq(Minus(given[1].externalInflow, given[1].maxThreshold),
                    Minus(nodes'[1].totalInflow, nodes[1].totalInflow))]_vars
  /\ []((InCircle /\ pc = "returned" /\ Overloaded(given[1])
           /\ LessEq(cfg.epsilon, Minus(given[1].externalInflow, given[1].maxThreshold)))
          => ~result[1].converged)

\* C16 witness: a circle with externalInflow between the thresholds returned
\* converged after more than one round.
C16_Witness ==
  /\ InCircle /\ pc = "returned"
  /\ Sustainable(given[1])
  /\ result[1].converged
  /\ result[1].iterations >= 2

(***************************************************************************)
(* The overflow sink of the returned FlowNetwork                           *)
(***************************************************************************)
UncoveredShare(node) == MathMax(Zero, Minus(Num(100), TotalAllocation(node)))

UncoveredOutflow(ns) ==
  SumSeq([k \in 1..Len(ns) |->
            Over(Times(OrZero(ns[k].totalOutflow), UncoveredShare(ns[k])), Num(100))])

Validated == entry \in { "validateNetwork", "validateNetworkV2" } /\ pc = "returned"

StartingAmount(r) == IF entry = "validateNetwork" THEN r.balance ELSE r.externalInflow

HasFatalFinding(rs, r) ==
  \/ Less(r.minThreshold, Zero)
  \/ Less(r.maxThreshold, Zero)
  \/ Less(r.maxThreshold, r.minThreshold)
  \/ Less(StartingAmount(r), Zero)
  \/ \E j \in 1..Len(r.allocations) :
       r.allocations[j][1] = r.id \/ r.allocations[j][1] \notin IdsOf(rs)
  \/ Less(Rat(10001, 100), TotalAllocation(r))

\* C18: both validateNetwork functions return (they never throw), with
\* valid = false and a non-empty errors list whenever some account/node has a
\* negative threshold, minThreshold > maxThreshold, a negative balance or
\* externalInflow, an allocation to itself, an allocation to an id that is not
\* in the network, or outgoing weights summing to more than 100.01; and valid
\* is true exactly when errors is empty.
C18_FatalChecks ==
  /\ (entry \in { "validateNetwork", "validateNetworkV2" }) => pc \in { "call", "returned" }
  /\ Validated
       => /\ (\E k \in 1..Len(given) : HasFatalFinding(given, given[k]))
               => ~result[1].valid /\ result[1].errors # << >>
          /\ result[1].valid <=> result[1].errors = << >>

\* C18 witness: a network whose only fatal finding is a weight sum above 100.01
\* (100 + 0.02, both targets present) was rejected.
C18_Witness ==
  /\ Validated
  /\ Len(given) = 3
  /\ TotalAllocation(given[1]) = Rat(10002, 100)
  /\ ~result[1].valid
  /\ Len(result[1].errors) = 1

HasWarning(validation, kind, id) ==
  \E j \in 1..Len(validation.warnings) : validation.warnings[j] = << kind, id >>

HasIncoming(rs, r) == \E k \in 1..Len(rs) : MapHas(rs[k].allocations, r.id)

WeightsInRange(r) ==
  \A j \in 1..Len(r.allocations) :
    LessEq(Zero, r.allocations[j][2]) /\ LessEq(r.allocations[j][2], Num(100))

\* C19: the discrete and the continuous validateNetwork both return a warning
\* for (a) every account with no outgoing allocations in a network of more than
\* one account and (b) every account with no incoming allocation and a zero
\* starting balance (discrete) or zero externalInflow (continuous); and a
\* network with no fatal finding is valid whatever its warnings.
C19_Warnings ==
  Validated
    => /\ \A k \in 1..Len(given) :
            /\ (Len(given[k].allocations) = 0 /\ Len(given) > 1)
                 => HasWarning(result[1], "noOutgoing", given[k].id)
            /\ (~HasIncoming(given, given[k]) /\ StartingAmount(given[k]) = Zero)
                 => HasWarning(result[1], "neverFunded", given[k].id)
       /\ (given # << >>
             /\ \A k \in 1..Len(given) :
                  ~HasFatalFinding(given, given[k]) /\ WeightsInRange(given[k]))
            => result[1].valid

(***************************************************************************)
(* What the caller's input array holds after the call                      *)
(***************************************************************************)
\* C20: after runDistribution(accounts, F) or calculateSteadyState(nodes) has
\* returned, every record of the caller's input array has the field values it
\* had before the call (balance for accounts; totalInflow, totalOutflow and
\* balance for nodes).
C20_NoSilentMutation ==
  /\ (entry = "runDistribution" /\ pc = "returned")
       => \A k \in 1..Len(given) : accounts[k].balance = given[k].balance
  /\ (entry = "calculateSteadyState" /\ pc = "returned")
       => \A k \in 1..Len(given) :
            /\ nodes[k].totalInflow = given[k].totalInflow
            /\ nodes[k].totalOutflow = given[k].totalOutflow
            /\ nodes[k].balance = given[k].balance

(***************************************************************************)
(* tbff: the status of an account                                          *)
(***************************************************************************)
StatusReturned == entry = "getAccountStatus" /\ pc = "returned"

StatusByPriority(balance, minThreshold, maxThreshold) ==
  CASE Less(balance, minThreshold) -> "deficit"
    [] ~Less(balance, minThreshold) /\ LessEq(maxThreshold, balance) -> "overflow"
    [] ~Less(balance, minThreshold) /\ Less(balance, maxThreshold)
         /\ Less(MathAbs(Minus(balance, minThreshold)), Rat(1, 100)) -> "minimum"
    [] OTHER -> "healthy"

\* C21: getAccountStatus returns 'deficit' when balance < minThreshold,
\* otherwise 'overflow' when balance >= maxThreshold, otherwise 'minimum' when
\* |balance - minThreshold| < 0.01, otherwise 'healthy'; an account with
\* balance = minThreshold = maxThreshold is 'overflow'.
C21_StatusPriority ==
  StatusReturned
    => LET a == accounts[1]
       IN  /\ result[1] = StatusByPriority(a.balance, a.minThreshold, a.maxThreshold)
           /\ (a.balance = a.minThreshold /\ a.minThreshold = a.maxThreshold)
                => result[1] = "overflow"

\* C21 witness: an account with balance = minThreshold = maxThreshold was
\* classified 'overflow'.
C21_Witness ==
  /\ StatusReturned
  /\ accounts[1].balance = accounts[1].minThreshold
  /\ accounts[1].minThreshold = accounts[1].maxThreshold
  /\ result[1] = "overflow"

(***************************************************************************)
(* tbff: derived fields of the returned network                            *)
(***************************************************************************)
BalanceChanged(k) == result[1].accounts[k].balance # given.accounts[k].balance

DerivedFieldsFresh(a) ==
  /\ a.shortfall = MathMax(Zero, Minus(a.minThreshold, a.balance))
  /\ a.capacity = MathMax(Zero, Minus(a.maxThreshold, a.balance))
  /\ a.overflow = MathMax(Zero, Minus(a.balance, a.maxThreshold))
  /\ a.status = StatusByPriority(a.balance, a.minThreshold, a.maxThreshold)

TotalsAreSums(net) ==
  LET n == Len(net.accounts)
  IN  /\ net.totalFunds = SumSeq([k \in 1..n |-> net.accounts[k].balance])
      /\ net.totalShortfall = SumSeq([k \in 1..n |-> net.accounts[k].shortfall])
      /\ net.totalCapacity = SumSeq([k \in 1..n |-> net.accounts[k].capacity])
      /\ net.totalOverflow = SumSeq([k \in 1..n |-> net.accounts[k].overflow])

\* C22: in the network returned by initialDistribution, every account whose
\* balance was changed has shortfall, capacity, overflow and status recomputed
\* from its new balance, and the network's totalFunds, totalShortfall,
\* totalCapacity and totalOverflow equal the sums of the account fields.
C22_DerivedFieldsFresh ==
  TbffReturned
    => /\ \A k \in 1..Len(result[1].accounts) :
            BalanceChanged(k) => DerivedFieldsFresh(result[1].accounts[k])
       /\ TotalsAreSums(result[1])

\* C22 witness: a returned network in which one account was raised out of
\* deficit into overflow (its status, shortfall and overflow all had to
\* change) while another account kept its balance.
C22_Witness ==
  /\ TbffReturned
  /\ \E k, m \in 1..Len(result[1].accounts) :
       /\ BalanceChanged(k) /\ ~BalanceChanged(m)
       /\ given.accounts[k].status = "deficit"
       /\ result[1].accounts[k].status = "overflow"
       /\ result[1].totalShortfall # given.totalShortfall

(***************************************************************************)
(* Discrete engines: what an iteration record holds                        *)
(***************************************************************************)
\* C23: for every non-converged round k of runDistribution and
\* runTargetedDistribution, iterations[k].balances holds each account's balance
\* after round k's redistribution step, i.e. the state at the end of round k.
C23_RecordAfterRedistribution ==
  \A engine \in { "runDistribution", "runTargetedDistribution" } :
    AfterMovingRound(engine) => LastRecord.balances = balancesOf(accounts)

(***************************************************************************)
(* runDistribution: the converged round                                    *)
(***************************************************************************)
ReturnedConverged == entry = "runDistribution" /\ pc = "returned" /\ result[1].converged

\* C24: whenever runDistribution returns converged = true, the last iteration
\* record is the only record with converged = true, its flows map is empty,
\* finalBalances equals that record's balance snapshot, and every final
\* balance is at most its account's maxThreshold.
C24_ConvergedRound ==
  ReturnedConverged
    => LET records == result[1].iterations
           last == records[Len(records)]
       IN  /\ records # << >>
           /\ \A k \in 1..Len(records) : records[k].converged <=> k = Len(records)
           /\ last.flows = << >>
           /\ result[1].finalBalances = last.balances
           /\ \A k \in 1..Len(given) :
                LessEq(MapGetOr0(result[1].finalBalances, given[k].id), given[k].maxThreshold)

\* C24 witness: a run that converged in a later round, after a round that
\* moved overflow between accounts.
C24_Witness ==
  /\ ReturnedConverged
  /\ Len(result[1].iterations) >= 2
  /\ result[1].iterations[1].flows # << >>

(***************************************************************************)
(* runTargetedDistribution against runDistribution with funding 0          *)
(***************************************************************************)
OnCopy == previous # << >> /\ previous[1].kind = "copy"

CopyReturned == OnCopy /\ entry = "runDistribution" /\ pc = "returned"

\* C25: for every valid network, runTargetedDistribution(accounts, config)
\* returns the same initialBalances, iteration records, finalBalances,
\* converged flag and iterationCount as runDistribution(accounts, 0, config) on
\* an identical copy, and totalFunding is 0 in both.
C25_TargetedEqualsZeroFunding ==
  CopyReturned
    => LET targeted == previous[1].result
           plain == result[1]
       IN  /\ targeted.initialBalances = plain.initialBalances
           /\ targeted.iterations = plain.iterations
           /\ targeted.finalBalances = plain.finalBalances
           /\ targeted.converged = plain.converged
           /\ targeted.iterationCount = plain.iterationCount
           /\ targeted.totalFunding = Zero
           /\ plain.totalFunding = Zero

\* C25 witness: both calls returned after a first round that moved overflow
\* along an edge of weight below 100 and an account that started below its
\* minimum.
C25_Witness ==
  /\ CopyReturned
  /\ Len(result[1].iterations) >= 2
  /\ result[1].iterations[1].flows # << >>
  /\ \E k \in 1..Len(given) :
       /\ Less(given[k].balance, given[k].minThreshold)
       /\ TotalAllocation(given[k]) = Num(50)

(***************************************************************************)
(* Continuous engine: when the overflow node is created                    *)
(***************************************************************************)
\* C26: the FlowNetwork returned by calculateSteadyState has a non-null
\* overflowNode exactly when totalExternalInflow (the sum of the external
\* inflows) is greater than totalNetworkCapacity (the sum of the
\* maxThresholds).
C26_OverflowNodeWhenOverCapacity ==
  (InSteadyState /\ pc = "returned")
    => LET inflow == SumSeq([k \in 1..Len(given) |-> given[k].externalInflow])
           capacity == SumSeq([k \in 1..Len(given) |-> given[k].maxThreshold])
       IN  /\ result[1].totalExternalInflow = inflow
           /\ result[1].totalNetworkCapacity = capacity
           /\ result[1].overflowNode # << >> <=> Less(capacity, inflow)

(***************************************************************************)
(* runDistribution: networks holding more than every maximum together      *)
(***************************************************************************)
TotalMaximum(accts) == SumSeq([k \in 1..Len(accts) |-> accts[k].maxThreshold])

Saturated ==
  /\ \A k \in 1..Len(given) : Less(Zero, TotalAllocation(given[k]))
  /\ LessEq(Plus(TotalMaximum(given), cfg.epsilon),
            TotalBalance(distributeInitial(given, funding)))

IsPreset == given = mutualAidCircle.accounts /\ funding = mutualAidCircle.suggestedFunding

\* C27: if every account has positive total outgoing weight and the total
\* balance after Phase A exceeds the sum of all maxThresholds by at least
\* epsilon, every round of runDistribution records totalOverflow >= epsilon and
\* the run returns converged = false with iterationCount = maxIterations; the
\* mutual aid circle preset with its suggested funding of 1500 is such a run.
C27_SaturatedNeverConverges ==
  InRunDistribution
    => /\ IsPreset => Saturated
       /\ Saturated
            => /\ \A k \in 1..Len(iterations) :
                    /\ LessEq(cfg.epsilon, iterations[k].totalOverflow)
                    /\ ~iterations[k].converged
               /\ pc = "returned"
                    => /\ ~result[1].converged
                       /\ result[1].iterationCount = cfg.maxIterations

\* C27 witness: the mutual aid circle preset, funded with 1500, returned
\* after three rounds.
C27_Witness ==
  /\ InRunDistribution /\ pc = "returned"
  /\ IsPreset
  /\ result[1].iterationCount = 3

(***************************************************************************)
(* runDistribution: minimums stay met                                      *)
(***************************************************************************)
MinimumsMet(accts, balances) ==
  \A k \in 1..Len(accts) : LessEq(accts[k].minThreshold, MapGetOr0(balances, accts[k].id))

NoneNegative(accts, balances) ==
  \A k \in 1..Len(accts) : LessEq(Zero, MapGetOr0(balances, accts[k].id))

EverywhereSince(P(_)) ==
  /\ P(balancesOf(accounts))
  /\ \A k \in 1..Len(iterations) : P(iterations[k].balances)
  /\ pc = "returned" => P(result[1].finalBalances)

\* C28: for every valid network and every funding F >= totalShortfall, each
\* account's balance is at least its minThreshold after Phase A, in every
\* iteration record and in finalBalances; and for every valid network and
\* non-negative F no balance is negative in any of these states.
C28_MinimumsStayMet ==
  InRunDistribution
    => /\ LessEq(TotalShortfall(given), funding)
            => EverywhereSince(LAMBDA balances : MinimumsMet(given, balances))
       /\ LessEq(Zero, funding)
            => EverywhereSince(LAMBDA balances : NoneNegative(given, balances))

\* C28 witness: a run whose funding equalled the total shortfall of accounts
\* that started below their minimums, returned after a round was recorded.
C28_Witness ==
  /\ InRunDistribution /\ pc = "returned"
  /\ funding = TotalShortfall(given)
  /\ \A k \in 1..Len(given) : Less(given[k].balance, given[k].minThreshold)
  /\ iterations # << >>

(***************************************************************************)
(* calculateOutflow: bounds on what is shared and what is kept             *)
(***************************************************************************)
InflowOf(node) == OrZero(node.totalInflow)

SameThresholds(n1, n2) ==
  n1.minThreshold = n2.minThreshold /\ n1.maxThreshold = n2.maxThreshold

\* C29: for a node with 0 <= minThreshold <= maxThreshold and totalInflow >= 0,
\* calculateOutflow returns o with 0 <= o <= totalInflow; the retained amount
\* totalInflow - o is at most maxThreshold, and at least minThreshold whenever
\* totalInflow >= minThreshold; and o does not decrease when totalInflow grows.
C29_OutflowBounds ==
  (OutflowReturned /\ OrderedThresholds(nodes[1]) /\ LessEq(Zero, InflowOf(nodes[1])))
    => LET node == nodes[1]
           o == result[1]
           retained == Minus(InflowOf(node), o)
       IN  /\ LessEq(Zero, o)
           /\ LessEq(o, InflowOf(node))
           /\ LessEq(retained, node.maxThreshold)
           /\ LessEq(node.minThreshold, InflowOf(node)) => LessEq(node.minThreshold, retained)
           /\ \A smaller \in OutflowNodes :
                (SameThresholds(smaller, node) /\ LessEq(InflowOf(smaller), InflowOf(node)))
                  => LessEq(calculateOutflow(smaller), o)

\* C29 witness: a node in the building zone, with inflow strictly between
\* minThreshold and 1.5 * maxThreshold, shared a positive part of its inflow
\* and kept an amount strictly between its thresholds.
C29_Witness ==
  /\ OutflowReturned /\ OrderedThresholds(nodes[1])
  /\ Less(nodes[1].minThreshold, InflowOf(nodes[1]))
  /\ Less(InflowOf(nodes[1]), Times(Rat(3, 2), nodes[1].maxThreshold))
  /\ Less(Zero, result[1])
  /\ Less(nodes[1].minThreshold, Minus(InflowOf(nodes[1]), result[1]))
  /\ Less(Minus(InflowOf(nodes[1]), result[1]), nodes[1].maxThreshold)

(***************************************************************************)
(* Continuous engine: the returned edges against the nodes' totals         *)
(***************************************************************************)
FlowInto(edges, id) ==
  SumSeq([j \in 1..Len(edges) |-> IF edges[j].target = id THEN edges[j].flowRate ELSE Zero])

FlowOutOf(edges, id) ==
  SumSeq([j \in 1..Len(edges) |-> IF edges[j].source = id THEN edges[j].flowRate ELSE Zero])

SteadyReturned == InSteadyState /\ pc = "returned"

\* C30: in the result of calculateSteadyState every node's totalInflow equals
\* its externalInflow plus the flowRates of the returned edges that target it,
\* and for every node with positive total weight the flowRates of its outgoing
\* edges sum to its totalOutflow.
C30_FlowBalance ==
  SteadyReturned
    => \A k \in 1..Len(result[1].nodes) :
         LET node == result[1].nodes[k]
         IN  /\ node.totalInflow
                  = Plus(node.externalInflow, FlowInto(result[1].edges, node.id))
             /\ Less(Zero, TotalAllocation(node))
                  => FlowOutOf(result[1].edges, node.id) = node.totalOutflow

\* C30 witness: a returned network in which a node of total weight 50 sends
\* a positive flow and some node receives more than its external inflow.
C30_Witness ==
  /\ SteadyReturned
  /\ \E k \in 1..Len(result[1].nodes) :
       /\ TotalAllocation(result[1].nodes[k]) = Num(50)
       /\ Less(Zero, FlowOutOf(result[1].edges, result[1].nodes[k].id))
  /\ \E k \in 1..Len(result[1].nodes) :
       Less(result[1].nodes[k].externalInflow, result[1].nodes[k].totalInflow)

====
